---- MODULE Spec2Model ----
(***************************************************************************)
(* SFNUL object-state replication: SyncedObject (src/src/SFNUL/            *)
(* SyncedObject.cpp) and the Synchronizer it calls back into.              *)
(*                                                                         *)
(* Object storage is a set of slots (addresses).  A slot that is not alive *)
(* keeps the bytes its last object left there; a new object may be         *)
(* constructed in it.  The Synchronizer's own code is not part of the      *)
(* sources; its operations follow the design document, sections 3 and 4.4. *)
(***************************************************************************)
EXTENDS Integers, Sequences, FiniteSets, TLC

\* ---- bounds ----
NSlots == 2        \* storage locations objects can live in
NSyncs == 2        \* Synchronizer instances
MaxId == 2         \* constructions per run (cap of the id counter)
MaxSteps == 7      \* operations per run
NFields == 2       \* synchronized fields declared on an object
MaxTime == 3       \* clock readings, in stream-period units
MaxPeriod == 2     \* stream periods that can be configured
MaxFieldSteps == 4 \* operations per run on the sender, its mirror and the clock
MaxFrame == 2      \* messages in one inbound frame
MaxReceiveSteps == 3 \* operations per run on the receiving side
IdBits == 2        \* width of id_type in the runs that exhaust the counter
NRequests == 2     \* different HTTP requests
NAddresses == 2    \* host names
MaxPipelines == 2  \* connections HTTPClient has open at a time
MaxPipeline == 2   \* requests in one pipeline at a time
MaxTimeout == 1    \* timeout values, in clock readings; 0 is no timeout
MaxDelay == 2      \* clock readings one pipeline Update can take
MaxHTTPSteps == 4  \* operations per run on HTTPClient
MaxSends == 2      \* SendRequest calls in the runs that go on forever

\* ---- program constants ----
invalid_id == 0    \* SyncedObject::invalid_id, the initial m_last_id
Byte == 256        \* the values of one byte of a Message
nullptr == 0       \* a null SynchronizerBase* / SyncedObject*

Slots == 1..NSlots
Syncs == 1..NSyncs
Ids == 1..MaxId
IdSpace == 0..MaxId

VARIABLES
  objects,     \* slot -> the SyncedObject members stored there
  syncs,       \* Synchronizer -> its tracking table, schedule and output
  m_last_id,   \* SyncedObject::m_last_id
  assigned,    \* history: the identifiers NewID has returned, in order
  sent,        \* Synchronizer -> the frame the latest step handed to the transport
  created,     \* history: Synchronizer -> identifiers of the Creates in earlier frames
  crashed,     \* the process died on an access to freed storage
  steps,       \* operations performed so far
  m_members,   \* slot -> SyncedObject::m_members, the fields in registration order
  message,     \* the Message the latest Serialize returned, and how far it has been read
  now,         \* the clock
  period,      \* the process-wide stream synchronization period
  errors,      \* the errors the latest step surfaced to the application
  m_pipelines, \* HTTPClient::m_pipelines: pipeline, address and port of each connection
  iter,        \* the position of HTTPClient::Update in m_pipelines; 0 outside Update
  m_timeout_value, \* HTTPClient::m_timeout_value
  wire         \* the transport: the wire messages handed to it and not yet delivered

vars == <<objects, syncs, m_last_id, assigned, sent, created, crashed, steps,
          m_members, message, now, period, errors, m_pipelines, iter, m_timeout_value,
          wire>>

\* The variables of HTTPClient, which the replication core does not touch.
http == <<m_pipelines, iter, m_timeout_value>>

\* ---- records ----

\* The members of a SyncedObject as its in-class initialisers leave them.
FreshObject ==
  [alive |-> FALSE, m_id |-> invalid_id, m_synchronizer |-> nullptr, m_changed |-> FALSE]

\* A Synchronizer after construction: nothing tracked, nothing scheduled.
FreshSynchronizer ==
  [destroyed |-> FALSE,
   ref       |-> [k \in IdSpace |-> nullptr],
   state     |-> [k \in IdSpace |-> "None"],
   removals  |-> {}]

Msg(kind, id) == [kind |-> kind, id |-> id]

Call(op, s, o, id, result) == [op |-> op, sync |-> s, obj |-> o, id |-> id, result |-> result]

\* The state an operation works on: the heap, the frames handed to the
\* transport, the Synchronizer calls made so far, what the operation returns
\* to its caller, and whether freed storage has been touched.
World ==
  [objects |-> objects, syncs |-> syncs, frame |-> [s \in Syncs |-> <<>>],
   calls |-> <<>>, result |-> "Void", ub |-> FALSE,
   members |-> m_members, message |-> message, errors |-> <<>>]

Log(w, c) == [w EXCEPT !.calls = Append(@, c)]

Tracked(sy) == {k \in IdSpace : sy.state[k] # "None"}

RECURSIVE Ascending(_)
Ascending(S) ==
  IF S = {} THEN <<>>
  ELSE LET m == CHOOSE x \in S : \A y \in S : x <= y
       IN <<m>> \o Ascending(S \ {m})

\* ---- Synchronizer ----

\* addObject: a Full snapshot is scheduled (Pending); a tracked identifier is
\* refused with DuplicateIdentifier and nothing changes.
AddObject(w, s, o) ==
  LET id == w.objects[o].m_id IN
  IF w.syncs[s].destroyed
  THEN [Log(w, Call("AddObject", s, o, id, "UseAfterFree")) EXCEPT !.ub = TRUE]
  ELSE IF w.syncs[s].state[id] # "None"
  THEN Log(w, Call("AddObject", s, o, id, "DuplicateIdentifier"))
  ELSE [Log(w, Call("AddObject", s, o, id, "Ok")) EXCEPT
          !.syncs[s].ref[id] = o,
          !.syncs[s].state[id] = "Pending"]

\* removeObject: purge everything keyed by the object's identifier and
\* schedule the destruction notice.
RemoveObject(w, s, o) ==
  LET id == w.objects[o].m_id IN
  IF w.syncs[s].destroyed
  THEN [Log(w, Call("RemoveObject", s, o, id, "UseAfterFree")) EXCEPT !.ub = TRUE]
  ELSE IF w.syncs[s].state[id] = "None"
  THEN Log(w, Call("RemoveObject", s, o, id, "NotTracked"))
  ELSE [Log(w, Call("RemoveObject", s, o, id, "Ok")) EXCEPT
          !.syncs[s].ref[id] = nullptr,
          !.syncs[s].state[id] = "None",
          !.syncs[s].removals = @ \cup {id}]

\* moveObject: repoint the entry keyed by the identity to the new storage.
MoveObject(w, s, from, to) ==
  LET id == w.objects[from].m_id IN
  IF w.syncs[s].destroyed
  THEN [Log(w, Call("MoveObject", s, to, id, "UseAfterFree")) EXCEPT !.ub = TRUE]
  ELSE IF w.syncs[s].state[id] = "None"
  THEN Log(w, Call("MoveObject", s, to, id, "NotTracked"))
  ELSE [Log(w, Call("MoveObject", s, to, id, "Ok")) EXCEPT !.syncs[s].ref[id] = to]

\* updateObject: the object has pending work.  The mark a tick reads is the
\* object's changed flag, which the caller has set; nothing is serialized.
UpdateObject(w, s, o) ==
  LET id == w.objects[o].m_id IN
  IF w.syncs[s].destroyed
  THEN [Log(w, Call("UpdateObject", s, o, id, "UseAfterFree")) EXCEPT !.ub = TRUE]
  ELSE IF w.syncs[s].state[id] = "None"
  THEN Log(w, Call("UpdateObject", s, o, id, "NotTracked"))
  ELSE Log(w, Call("UpdateObject", s, o, id, "Ok"))

\* ---- SyncedObject ----

\* The values of the unsigned id_type.
IdModulus == 2 ^ IdBits

\* SyncedObject::NewID: ++m_last_id, in the unsigned id_type.
NewID == (m_last_id + 1) % IdModulus

\* SyncedObject::SyncedObject(): the members' initialisers, then m_id = NewID().
SyncedObject(w, o) ==
  [w EXCEPT !.objects[o] = [FreshObject EXCEPT !.alive = TRUE, !.m_id = NewID]]

\* A move constructor written as detach of the source and attach of the
\* destination.
MoveConstructByReattach(w, o, object) ==
  LET s  == w.objects[object].m_synchronizer
      w1 == [w EXCEPT !.objects[o] =
                 [FreshObject EXCEPT !.alive = TRUE, !.m_id = w.objects[object].m_id]]
  IN IF s # nullptr
     THEN LET w2 == RemoveObject(w1, s, object)
              w3 == [w2 EXCEPT !.objects[object].m_synchronizer = nullptr,
                               !.objects[o].m_synchronizer = s]
          IN AddObject(w3, s, o)
     ELSE w1

\* SyncedObject::SyncedObject( SyncedObject&& object ), constructing in slot o.
MoveConstruct(w, o, object) ==
  LET s  == w.objects[object].m_synchronizer
      w1 == [w EXCEPT !.objects[o] =
                 [FreshObject EXCEPT !.alive = TRUE, !.m_id = w.objects[object].m_id]]
  IN IF s # nullptr
     THEN LET w2 == [w1 EXCEPT !.objects[o].m_synchronizer = s]
              w3 == MoveObject(w2, s, object, o)
          IN [w3 EXCEPT !.objects[object].m_synchronizer = nullptr]
     ELSE w1

\* SyncedObject::operator=( SyncedObject&& object ) on the object in slot o.
MoveAssign(w, o, object) ==
  LET w1 == [w EXCEPT !.objects[o].m_id = w.objects[object].m_id]
      s  == w1.objects[o].m_synchronizer
  IN IF s # nullptr
     THEN IF s = w1.objects[object].m_synchronizer
          THEN MoveObject(w1, s, object, o)
          ELSE LET w2 == RemoveObject(w1, s, o)
                   t  == w2.objects[object].m_synchronizer
                   w3 == [w2 EXCEPT !.objects[o].m_synchronizer = t]
               IN IF t # nullptr THEN AddObject(w3, t, o) ELSE w3
     ELSE w1

\* A destructor that does not deregister the object.
DestructKeepsEntry(w, o) == [w EXCEPT !.objects[o].alive = FALSE]

\* SyncedObject::~SyncedObject(); the storage keeps what the object left.
Destruct(w, o) ==
  LET s  == w.objects[o].m_synchronizer
      w1 == IF s # nullptr THEN RemoveObject(w, s, o) ELSE w
  IN [w1 EXCEPT !.objects[o].alive = FALSE]

\* SyncedObject::SetID.
SetID(w, o, id) == [w EXCEPT !.objects[o].m_id = id]

\* A NotifyChanged that tells the Synchronizer and leaves the flag alone.
NotifyChangedKeepsFlag(w, o) ==
  LET s == w.objects[o].m_synchronizer
  IN IF s # nullptr THEN UpdateObject(w, s, o) ELSE w

\* SyncedObject::NotifyChanged.
NotifyChanged(w, o) ==
  LET w1 == [w EXCEPT !.objects[o].m_changed = TRUE]
      s  == w1.objects[o].m_synchronizer
  IN IF s # nullptr THEN UpdateObject(w1, s, o) ELSE w1

\* A SetSynchronizer that leaves the old Synchronizer without telling it.
SetSynchronizerKeepsEntry(w, o, synchronizer) ==
  LET w2 == [w EXCEPT !.objects[o].m_synchronizer = synchronizer]
  IN IF synchronizer # nullptr THEN AddObject(w2, synchronizer, o) ELSE w2

\* SyncedObject::SetSynchronizer.
SetSynchronizer(w, o, synchronizer) ==
  LET s  == w.objects[o].m_synchronizer
      w1 == IF s # nullptr /\ ~w.syncs[s].destroyed THEN RemoveObject(w, s, o) ELSE w
      w2 == [w1 EXCEPT !.objects[o].m_synchronizer = synchronizer]
  IN IF synchronizer # nullptr THEN AddObject(w2, synchronizer, o) ELSE w2

\* ---- Message ----

\* The bytes of a value of the given width, low byte first.
RECURSIVE Bytes(_, _)
Bytes(value, width) ==
  IF width = 0 THEN <<>> ELSE <<value % Byte>> \o Bytes(value \div Byte, width - 1)

\* The value a run of bytes stands for.
RECURSIVE FromBytes(_)
FromBytes(bytes) ==
  IF bytes = <<>> THEN 0 ELSE Head(bytes) + Byte * FromBytes(Tail(bytes))

\* A Message as constructed: no bytes, nothing read, no failed read.  The
\* tag is the kind of wire message it travels in; wrote is history (which
\* member wrote which value) and is neither transmitted nor read by the code.
EmptyMessage ==
  [bytes |-> <<>>, pos |-> 0, underrun |-> FALSE, tag |-> "None", wrote |-> <<>>]

\* message << value.
Put(msg, value, width) == [msg EXCEPT !.bytes = @ \o Bytes(value, width)]

Remaining(msg) == Len(msg.bytes) - msg.pos

\* message >> value: what is read, and the message after the read.  A read
\* past the end fails with Underrun and leaves the cursor where it was.
Get(msg, width) ==
  IF Remaining(msg) < width
  THEN [ok |-> FALSE, value |-> 0, message |-> [msg EXCEPT !.underrun = TRUE]]
  ELSE [ok |-> TRUE,
        value |-> FromBytes(SubSeq(msg.bytes, msg.pos + 1, msg.pos + width)),
        message |-> [msg EXCEPT !.pos = @ + width]]

\* ---- SyncedType ----

\* The passes, named by the SynchronizationType handed to Serialize.
Full == "Static"
Delta == "Dynamic"
StreamDue == "Stream"
SynchronizationType == {"Static", "Dynamic", "Stream"}

\* The i-th declared field is a SyncedUint16 or a SyncedUint8 in turn.
Width(i) == 1 + (i % 2)

\* The values application code stores in a field of the given width.
Values(width) == IF width = 1 THEN {0, 5} ELSE {0, 258}

\* A field as constructed for an owner: value-initialised, m_modified = true,
\* stream timer started.
SyncedType(type, i) ==
  [type |-> type, width |-> Width(i), m_value |-> 0, m_modified |-> TRUE, m_synced |-> now]

\* Whether a pass transmits field f: Full every field; Delta a Dynamic field
\* that is dirty; StreamDue a Stream field whose timer has run for at least
\* the stream period.
Due(f, sync_type) ==
  CASE sync_type = Full -> TRUE
    [] sync_type = Delta -> f.type = "Dynamic" /\ f.m_modified
    [] sync_type = StreamDue -> f.type = "Stream" /\ now - f.m_synced >= period

\* SyncedType::Serialize( message, sync_type ) on field i of object o.
SyncedTypeSerialize(w, o, i, sync_type) ==
  LET f == w.members[o][i] IN
  IF ~Due(f, sync_type) THEN w
  ELSE [w EXCEPT !.message = [Put(@, f.m_value, f.width) EXCEPT
                                !.wrote = Append(@, [member |-> i, value |-> f.m_value])],
                 !.members[o][i].m_modified = IF sync_type = Delta THEN FALSE ELSE @,
                 !.members[o][i].m_synced = IF sync_type = StreamDue THEN now ELSE @]

\* SyncedType::Deserialize( message, sync_type ) on field i of object o: the
\* same rules decide whether a value is read; the value is stored without
\* marking the field modified and without notifying the owner.
SyncedTypeDeserialize(w, o, i, sync_type) ==
  LET f == w.members[o][i] IN
  IF ~Due(f, sync_type) THEN w
  ELSE LET r == Get(w.message, f.width)
       IN IF r.ok
          THEN [w EXCEPT !.message = r.message,
                         !.members[o][i].m_value = r.value,
                         !.members[o][i].m_synced = IF sync_type = StreamDue THEN now ELSE @]
          ELSE [w EXCEPT !.message = r.message]

\* SyncedType::SetValue on field i of object o: store, mark modified, notify
\* the owner.
SetValue(w, o, i, value) ==
  NotifyChanged([w EXCEPT !.members[o][i].m_value = value,
                          !.members[o][i].m_modified = TRUE], o)

\* ---- SyncedObject: fields ----

\* A RegisterMember that puts the field in front of the list.
RegisterMemberInFront(w, o, member) == [w EXCEPT !.members[o] = <<member>> \o @]

\* SyncedObject::RegisterMember.
RegisterMember(w, o, member) == [w EXCEPT !.members[o] = Append(@, member)]

\* The loop of SyncedObject::Serialize from member i on; q is the state
\* after member i.
RECURSIVE SerializeFrom(_, _, _, _)
SerializeFrom(w, o, i, sync_type) ==
  IF i > Len(w.members[o]) THEN w
  ELSE CHOOSE r \in {SerializeFrom(q, o, i + 1, sync_type) :
                        q \in {SyncedTypeSerialize(w, o, i, sync_type)}} : TRUE

\* A Serialize that hands every member the Full pass, whatever was asked.
SerializeAlwaysFull(w, o, sync_type) ==
  SerializeFrom([w EXCEPT !.message = EmptyMessage], o, 1, Full)

\* A Serialize that stops after the first member.
SerializeFirstOnly(w, o, sync_type) ==
  LET w1 == [w EXCEPT !.message = EmptyMessage]
  IN IF w1.members[o] = <<>> THEN w1 ELSE SyncedTypeSerialize(w1, o, 1, sync_type)

\* SyncedObject::Serialize: a new Message, every member in registration
\* order.
Serialize(w, o, sync_type) ==
  SerializeFrom([w EXCEPT !.message = EmptyMessage], o, 1, sync_type)

\* The loop of SyncedObject::Deserialize from member i on; q is the state
\* after member i.
RECURSIVE DeserializeFrom(_, _, _, _)
DeserializeFrom(w, o, i, sync_type) ==
  IF i > Len(w.members[o]) THEN w
  ELSE CHOOSE r \in {DeserializeFrom(q, o, i + 1, sync_type) :
                        q \in {SyncedTypeDeserialize(w, o, i, sync_type)}} : TRUE

\* A Deserialize that visits the members last to first.
RECURSIVE DeserializeBackFrom(_, _, _, _)
DeserializeBackFrom(w, o, i, sync_type) ==
  IF i < 1 THEN w
  ELSE DeserializeBackFrom(SyncedTypeDeserialize(w, o, i, sync_type), o, i - 1, sync_type)

DeserializeReversed(w, o, sync_type) ==
  DeserializeBackFrom(w, o, Len(w.members[o]), sync_type)

\* A Deserialize that tells the owner the object has changed.
DeserializeNotifies(w, o, sync_type) == NotifyChanged(DeserializeFrom(w, o, 1, sync_type), o)

\* SyncedObject::Deserialize: every member in registration order.
Deserialize(w, o, sync_type) == DeserializeFrom(w, o, 1, sync_type)

\* ---- Synchronizer: tick and destruction ----

\* Reading or writing an object through a tracked reference; a reference to
\* storage whose object is gone touches freed memory.
Deref(w, o) == [w EXCEPT !.ub = @ \/ ~w.objects[o].alive]

\* First part of a tick: a Create for every entry that is Pending.
RECURSIVE TickCreates(_, _, _)
TickCreates(w, s, ks) ==
  IF ks = <<>> THEN w
  ELSE LET k == Head(ks)
           o == w.syncs[s].ref[k]
       IN IF w.syncs[s].state[k] = "Pending"
          THEN TickCreates([Deref(w, o) EXCEPT
                              !.syncs[s].state[k] = "Live",
                              !.frame[s] = Append(@, Msg("Create", w.objects[o].m_id))],
                           s, Tail(ks))
          ELSE TickCreates(w, s, Tail(ks))

\* The object has a Stream field whose timer has run for the stream period.
HasDueStream(w, o) ==
  \E i \in 1..Len(w.members[o]) : Due(w.members[o][i], StreamDue)

\* The delta of an object: its Delta pass and its StreamDue pass.  The bytes
\* go into the frame; the Message the application holds is not touched.
DeltaSerialize(w, o) ==
  [Serialize(Serialize(w, o, Delta), o, StreamDue) EXCEPT !.message = w.message]

\* Second part: a Delta for every tracked object whose changed flag is set
\* or that has a due Stream field; the flag is cleared once the delta is
\* serialized.
RECURSIVE TickDeltas(_, _, _)
TickDeltas(w, s, ks) ==
  IF ks = <<>> THEN w
  ELSE LET k == Head(ks)
           o == w.syncs[s].ref[k]
       IN IF w.objects[o].m_changed \/ HasDueStream(w, o)
          THEN TickDeltas([DeltaSerialize(Deref(w, o), o) EXCEPT
                             !.objects[o].m_changed = FALSE,
                             !.frame[s] = Append(@, Msg("Delta", w.objects[o].m_id))],
                          s, Tail(ks))
          ELSE TickDeltas(Deref(w, o), s, Tail(ks))

\* Third part: a Destroy for every pending removal.
RECURSIVE TickDestroys(_, _, _)
TickDestroys(w, s, ks) ==
  IF ks = <<>> THEN w
  ELSE TickDestroys([w EXCEPT !.frame[s] = Append(@, Msg("Destroy", Head(ks)))],
                    s, Tail(ks))

CreatesOf(frame) == {frame[i].id : i \in {j \in 1..Len(frame) : frame[j].kind = "Create"}}

\* A second part that hands over a Delta for every tracked object that has
\* a field whose modified flag is set.
RECURSIVE TickDeltasOfModified(_, _, _)
TickDeltasOfModified(w, s, ks) ==
  IF ks = <<>> THEN w
  ELSE LET k == Head(ks)
           o == w.syncs[s].ref[k]
       IN IF \E i \in 1..Len(w.members[o]) : w.members[o][i].m_modified
          THEN TickDeltasOfModified([DeltaSerialize(Deref(w, o), o) EXCEPT
                                       !.objects[o].m_changed = FALSE,
                                       !.frame[s] = Append(@, Msg("Delta", w.objects[o].m_id))],
                                    s, Tail(ks))
          ELSE TickDeltasOfModified(Deref(w, o), s, Tail(ks))

\* A tick that goes by the modified flags of the fields.
UpdateByModified(w, s) ==
  LET w1 == TickCreates(w, s, Ascending(Tracked(w.syncs[s])))
      w2 == TickDeltasOfModified(w1, s, Ascending(Tracked(w1.syncs[s])))
      w3 == TickDestroys(w2, s, Ascending(w2.syncs[s].removals))
  IN [w3 EXCEPT !.syncs[s].removals = {}]

\* tick()/update(): creates, then deltas, then destroys, each on the
\* outcome of the part before, in one frame that
\* is handed to the transport.
Update(w, s) ==
  LET creates  == {TickCreates(w, s, Ascending(Tracked(w.syncs[s])))}
      deltas   == {TickDeltas(w1, s, Ascending(Tracked(w1.syncs[s]))) : w1 \in creates}
      destroys == {TickDestroys(w2, s, Ascending(w2.syncs[s].removals)) : w2 \in deltas}
  IN CHOOSE r \in {[w3 EXCEPT !.syncs[s].removals = {}] : w3 \in destroys} : TRUE

\* The Synchronizer's destructor: it is marked destroyed and every tracked
\* object is detached with SetSynchronizer( nullptr ).
RECURSIVE DetachAll(_, _, _)
DetachAll(w, s, ks) ==
  IF ks = <<>> THEN w
  ELSE LET o == w.syncs[s].ref[Head(ks)]
       IN DetachAll(SetSynchronizer(Deref(w, o), o, nullptr), s, Tail(ks))

DestroySynchronizer(w, s) ==
  LET w1 == [w EXCEPT !.syncs[s].destroyed = TRUE]
      w2 == DetachAll(w1, s, Ascending(Tracked(w1.syncs[s])))
  IN [w2 EXCEPT !.syncs[s].ref = FreshSynchronizer.ref,
                !.syncs[s].state = FreshSynchronizer.state,
                !.syncs[s].removals = {}]

\* ---- the state machine ----

\* HTTPClient as constructed, and the timeout set on it.
InitHTTPClient(timeout) ==
  /\ m_pipelines = <<>>
  /\ iter = 0
  /\ m_timeout_value = timeout

Init ==
  /\ InitHTTPClient(0)
  /\ wire = <<>>
  /\ objects = [o \in Slots |-> FreshObject]
  /\ syncs = [s \in Syncs |-> FreshSynchronizer]
  /\ m_last_id = invalid_id
  /\ assigned = <<>>
  /\ sent = [s \in Syncs |-> <<>>]
  /\ created = [s \in Syncs |-> {}]
  /\ crashed = FALSE
  /\ steps = 0
  /\ m_members = [o \in Slots |-> <<>>]
  /\ message = EmptyMessage
  /\ now = 0
  /\ period = 1
  /\ errors = <<>>

\* The outcome of an operation.  One that touched freed storage either went
\* on with what the storage held, or killed the process.
Commit(w) ==
  /\ ~crashed
  /\ steps < MaxSteps
  /\ steps' = steps + 1
  /\ created' = [s \in Syncs |-> created[s] \cup CreatesOf(sent[s])]
  /\ UNCHANGED <<now, period, http, wire>>
  /\ \/ /\ crashed' = FALSE
        /\ objects' = w.objects
        /\ syncs' = w.syncs
        /\ sent' = w.frame
        /\ m_members' = w.members
        /\ message' = w.message
        /\ errors' = w.errors
     \/ /\ w.ub
        /\ crashed' = TRUE
        /\ sent' = [s \in Syncs |-> <<>>]
        /\ errors' = <<>>
        /\ UNCHANGED <<objects, syncs, m_members, message>>

\* An operation the application calls on an object whose Synchronizer is
\* already destroyed reads freed storage.
Dangling(o) ==
  /\ objects[o].m_synchronizer # nullptr
  /\ syncs[objects[o].m_synchronizer].destroyed

Construct(o) ==
  /\ ~objects[o].alive
  /\ m_last_id < MaxId
  /\ m_last_id' = NewID
  /\ assigned' = Append(assigned, NewID)
  /\ Commit(SyncedObject(World, o))

MoveConstructStep(o, object) ==
  /\ ~objects[o].alive
  /\ objects[object].alive
  /\ UNCHANGED <<m_last_id, assigned>>
  /\ Commit(MoveConstruct(World, o, object))

MoveAssignStep(o, object) ==
  /\ objects[o].alive
  /\ objects[object].alive
  /\ o # object
  /\ UNCHANGED <<m_last_id, assigned>>
  /\ Commit(MoveAssign(World, o, object))

DestructStep(o) ==
  /\ objects[o].alive
  /\ UNCHANGED <<m_last_id, assigned>>
  /\ Commit(Destruct(World, o))

SetIDStep(o, id) ==
  /\ objects[o].alive
  /\ UNCHANGED <<m_last_id, assigned>>
  /\ Commit(SetID(World, o, id))

NotifyChangedStep(o) ==
  /\ objects[o].alive
  /\ UNCHANGED <<m_last_id, assigned>>
  /\ Commit(NotifyChanged(World, o))

SetSynchronizerStep(o, s) ==
  /\ objects[o].alive
  /\ s # nullptr => ~syncs[s].destroyed
  /\ UNCHANGED <<m_last_id, assigned>>
  /\ Commit([SetSynchronizer(World, o, s) EXCEPT !.ub = @ \/ Dangling(o)])

Tick(s) ==
  /\ ~syncs[s].destroyed
  /\ UNCHANGED <<m_last_id, assigned>>
  /\ Commit(Update(World, s))

DestroySynchronizerStep(s) ==
  /\ ~syncs[s].destroyed
  /\ UNCHANGED <<m_last_id, assigned>>
  /\ Commit(DestroySynchronizer(World, s))

Next ==
  \/ \E o \in Slots : Construct(o)
  \/ \E o \in Slots, object \in Slots : MoveConstructStep(o, object)
  \/ \E o \in Slots, object \in Slots : MoveAssignStep(o, object)
  \/ \E o \in Slots : DestructStep(o)
  \/ \E o \in Slots, id \in Ids : SetIDStep(o, id)
  \/ \E o \in Slots : NotifyChangedStep(o)
  \/ \E o \in Slots, s \in Syncs \cup {nullptr} : SetSynchronizerStep(o, s)
  \/ \E s \in Syncs : Tick(s)
  \/ \E s \in Syncs : DestroySynchronizerStep(s)

Spec == Init /\ [][Next]_vars

\* ---- fields: a sender object, its mirror, and the Message between them ----

Sender == 1        \* the slot of the object application code mutates
Mirror == 2        \* the slot of its mirror on the receiving side

\* An object with the given fields that its Synchronizer has announced.
Announced1(schema) == [i \in 1..NFields |-> SyncedType(schema[i], i)]

\* The sender and its mirror, each with the same NFields fields of some
\* policies, each in its own Synchronizer: the mirror Live, the sender in
\* the given state; nothing serialized yet.
InitFieldsAs(state) ==
  /\ InitHTTPClient(0)
  /\ wire = <<>>
  /\ now = 0
  /\ period \in 0..MaxPeriod
  /\ \E schema \in [1..NFields -> SynchronizationType] :
       m_members = [o \in Slots |->
                      IF o \in {Sender, Mirror} THEN Announced1(schema) ELSE <<>>]
  /\ objects = [o \in Slots |->
                  IF o \in {Sender, Mirror}
                  THEN [FreshObject EXCEPT !.alive = TRUE, !.m_id = 1, !.m_synchronizer = o]
                  ELSE FreshObject]
  /\ syncs = [s \in Syncs |->
                IF s \in {Sender, Mirror}
                THEN [FreshSynchronizer EXCEPT
                        !.ref[1] = s,
                        !.state[1] = IF s = Sender THEN state ELSE "Live"]
                ELSE FreshSynchronizer]
  /\ m_last_id = 1
  /\ assigned = <<1>>
  /\ sent = [s \in Syncs |-> <<>>]
  /\ created = [s \in Syncs |-> IF s = Sender /\ state = "Live" THEN {1} ELSE {}]
  /\ crashed = FALSE
  /\ steps = 0
  /\ message = EmptyMessage
  /\ errors = <<>>

\* The sender has been announced: it is Live.
InitFields == InitFieldsAs("Live")

\* The sender has been added to its Synchronizer and no tick has run: it is
\* Pending.
InitCreate == InitFieldsAs("Pending")

\* Application code stores a value in field i of the sender.
SetValueStep(i, value) ==
  /\ steps < MaxFieldSteps
  /\ UNCHANGED <<m_last_id, assigned>>
  /\ Commit(SetValue(World, Sender, i, value))

\* The sender is serialized for a pass; the Message is what the peer gets.
SerializeStep(sync_type) ==
  /\ steps < MaxFieldSteps
  /\ UNCHANGED <<m_last_id, assigned>>
  /\ Commit([Serialize(World, Sender, sync_type) EXCEPT !.message.tag = sync_type])

\* The receiving side applies the Message to the mirror, with the pass the
\* Message was made for.
DeserializeStep(sync_type) ==
  /\ steps < MaxFieldSteps
  /\ message.tag = sync_type
  /\ message.pos = 0
  /\ ~message.underrun
  /\ UNCHANGED <<m_last_id, assigned>>
  /\ Commit(Deserialize(World, Mirror, sync_type))

\* Time passes.
AdvanceClock ==
  /\ ~crashed
  /\ steps < MaxFieldSteps
  /\ now < MaxTime
  /\ now' = now + 1
  /\ steps' = steps + 1
  /\ UNCHANGED <<objects, syncs, m_last_id, assigned, sent, created, crashed,
                 m_members, message, period, errors, http, wire>>

\* SetStreamSynchronizationPeriod.
SetStreamSynchronizationPeriod(p) ==
  /\ ~crashed
  /\ steps < MaxFieldSteps
  /\ period' = p
  /\ steps' = steps + 1
  /\ UNCHANGED <<objects, syncs, m_last_id, assigned, sent, created, crashed,
                 m_members, message, now, errors, http, wire>>

NextFields ==
  \/ \E i \in 1..NFields : \E value \in Values(Width(i)) : SetValueStep(i, value)
  \/ \E sync_type \in SynchronizationType : SerializeStep(sync_type)
  \/ \E sync_type \in SynchronizationType : DeserializeStep(sync_type)
  \/ AdvanceClock
  \/ \E p \in 0..MaxPeriod : SetStreamSynchronizationPeriod(p)
  \/ \E s \in {Sender, Mirror} : steps < MaxFieldSteps /\ Tick(s)

SpecFields == InitFields /\ [][NextFields]_vars

\* The same operations, from before the sender's first tick.
SpecCreate == InitCreate /\ [][NextFields]_vars

\* ---- fields: registration ----

\* The sender and its mirror as constructed and announced, before any field
\* of theirs has been constructed.
InitSchema ==
  /\ InitHTTPClient(0)
  /\ wire = <<>>
  /\ now = 0
  /\ period = 1
  /\ m_members = [o \in Slots |-> <<>>]
  /\ objects = [o \in Slots |->
                  IF o \in {Sender, Mirror}
                  THEN [FreshObject EXCEPT !.alive = TRUE, !.m_id = 1, !.m_synchronizer = o]
                  ELSE FreshObject]
  /\ syncs = [s \in Syncs |->
                IF s \in {Sender, Mirror}
                THEN [FreshSynchronizer EXCEPT !.ref[1] = s, !.state[1] = "Live"]
                ELSE FreshSynchronizer]
  /\ m_last_id = 1
  /\ assigned = <<1>>
  /\ sent = [s \in Syncs |-> <<>>]
  /\ created = [s \in Syncs |-> IF s = Sender THEN {1} ELSE {}]
  /\ crashed = FALSE
  /\ steps = 0
  /\ message = EmptyMessage
  /\ errors = <<>>

\* The next field of object o is constructed with o as its owner and
\* registers itself.
RegisterMemberStep(o, type) ==
  /\ Len(m_members[o]) < NFields
  /\ UNCHANGED <<m_last_id, assigned>>
  /\ Commit(RegisterMember(World, o, SyncedType(type, Len(m_members[o]) + 1)))

\* Application code stores a value in a field the sender has.
SchemaSetValue(i, value) ==
  /\ i <= Len(m_members[Sender])
  /\ UNCHANGED <<m_last_id, assigned>>
  /\ Commit(SetValue(World, Sender, i, value))

\* The sender is serialized for a pass.
SchemaSerialize(sync_type) ==
  /\ UNCHANGED <<m_last_id, assigned>>
  /\ Commit([Serialize(World, Sender, sync_type) EXCEPT !.message.tag = sync_type])

\* The Message is applied to the mirror, with the pass it was made for.
SchemaDeserialize(sync_type) ==
  /\ message.tag = sync_type
  /\ message.pos = 0
  /\ ~message.underrun
  /\ UNCHANGED <<m_last_id, assigned>>
  /\ Commit(Deserialize(World, Mirror, sync_type))

NextSchema ==
  \/ \E o \in {Sender, Mirror}, type \in SynchronizationType : RegisterMemberStep(o, type)
  \/ \E i \in 1..NFields : \E value \in Values(Width(i)) : SchemaSetValue(i, value)
  \/ \E sync_type \in SynchronizationType : SchemaSerialize(sync_type)
  \/ \E sync_type \in SynchronizationType : SchemaDeserialize(sync_type)
  \/ \E o \in {Sender, Mirror} : NotifyChangedStep(o)
  \/ MoveAssignStep(Mirror, Sender)
  \/ \E s \in {Sender, Mirror} : Tick(s)

SpecSchema == InitSchema /\ [][NextSchema]_vars

\* ---- the receiving side: decoding inbound frames ----

Receiver == 2      \* the Synchronizer that decodes the frames of the peer

\* The type tags the application has supplied a factory for.
Registry == {1}

\* The type tags a Create can carry: a registered one and one that is not.
TypeTags == Registry \cup {2}

\* A message of an inbound frame; only a Create carries a type tag.
Inbound(kind, id, type_tag) == [kind |-> kind, id |-> id, type_tag |-> type_tag]

InboundMessages ==
  {Inbound("Create", id, tag) : id \in Ids, tag \in TypeTags}
    \cup {Inbound(kind, id, 0) : kind \in {"Delta", "Destroy"}, id \in Ids}

Frames == UNION {[1..n -> InboundMessages] : n \in 1..MaxFrame}

Known(w, r, id) == w.syncs[r].state[id] # "None"

\* The storage the factory constructs the next mirror in.
FreeSlot(w) == CHOOSE o \in Slots : ~w.objects[o].alive /\ \A p \in Slots : p < o => w.objects[p].alive

\* The mirrors the factory has constructed during this step.
Made(w) == Cardinality({n \in 1..Len(w.calls) : w.calls[n].op = "Factory"})

\* A Create for an identifier not yet known, of a registered type: the
\* factory constructs the mirror, it is given the identifier, entered in
\* the table as Live (its snapshot is the one received) and the snapshot is
\* applied.
Instantiate(w, r, m) ==
  LET o  == FreeSlot(w)
      w1 == [w EXCEPT !.objects[o] =
                [FreshObject EXCEPT !.alive = TRUE, !.m_id = m_last_id + Made(w) + 1],
                      !.members[o] = <<>>]
      w2 == SetID(Log(w1, Call("Factory", r, o, m.id, "Ok")), o, m.id)
      w3 == [w2 EXCEPT !.objects[o].m_synchronizer = r,
                       !.syncs[r].ref[m.id] = o,
                       !.syncs[r].state[m.id] = "Live"]
  IN Deserialize(w3, o, Full)

\* A Destroy for a known identifier: the mirror is removed and forgotten.
Forget(w, r, id) ==
  LET o == w.syncs[r].ref[id]
  IN [Deref(w, o) EXCEPT !.syncs[r].ref[id] = nullptr,
                         !.syncs[r].state[id] = "None",
                         !.objects[o].m_synchronizer = nullptr,
                         !.objects[o].alive = FALSE]

\* A decoder that makes a mirror for whatever identifier it has not seen.
DecodeMessageInstantiatesUnknown(w, r, m) ==
  IF m.kind = "Create" /\ m.type_tag \notin Registry
  THEN [w EXCEPT !.errors = Append(@, "UnknownTypeTag")]
  ELSE IF ~Known(w, r, m.id) THEN Instantiate(w, r, m)
  ELSE IF m.kind = "Destroy" THEN Forget(w, r, m.id)
  ELSE w

\* Decoding one message.  A Create of an unregistered type is dropped and
\* UnknownTypeTag surfaced; a Delta or Destroy for an unknown identifier is
\* ignored.
DecodeMessage(w, r, m) ==
  CASE m.kind = "Create" ->
         IF m.type_tag \notin Registry
         THEN [w EXCEPT !.errors = Append(@, "UnknownTypeTag")]
         ELSE IF Known(w, r, m.id) THEN w
         ELSE Instantiate(w, r, m)
    [] m.kind = "Delta" ->
         IF Known(w, r, m.id)
         THEN Deserialize(Deref(w, w.syncs[r].ref[m.id]), w.syncs[r].ref[m.id], Delta)
         ELSE w
    [] m.kind = "Destroy" ->
         IF Known(w, r, m.id) THEN Forget(w, r, m.id) ELSE w

\* A decoder that gives up on the frame at the first error it surfaces.
RECURSIVE DecodeStopsAtError(_, _, _)
DecodeStopsAtError(w, r, frame) ==
  IF frame = <<>> \/ w.errors # <<>> THEN w
  ELSE DecodeStopsAtError(DecodeMessage(w, r, Head(frame)), r, Tail(frame))

\* Decoding an inbound frame, message by message.
RECURSIVE Decode(_, _, _)
Decode(w, r, frame) ==
  IF frame = <<>> THEN w
  ELSE Decode(DecodeMessage(w, r, Head(frame)), r, Tail(frame))

\* The identifiers a frame would have the factory construct a mirror for.
Instantiations(frame) ==
  {frame[n].id : n \in {j \in 1..Len(frame) :
                          frame[j].kind = "Create" /\ frame[j].type_tag \in Registry}}

\* The application has storage, and the run has identifiers, for the
\* mirrors the frame asks for.
Decodable(frame) ==
  /\ ~syncs[Receiver].destroyed
  /\ Cardinality(Instantiations(frame)) <= Cardinality({o \in Slots : ~objects[o].alive})
  /\ m_last_id + Cardinality(Instantiations(frame)) <= MaxId

\* The receiving Synchronizer's tick takes the next inbound frame from the
\* transport and decodes it.
ReceiveStep(frame) ==
  /\ steps < MaxReceiveSteps
  /\ Decodable(frame)
  /\ m_last_id' = m_last_id + Made(Decode(World, Receiver, frame))
  /\ assigned' = assigned \o [n \in 1..Made(Decode(World, Receiver, frame)) |-> m_last_id + n]
  /\ Commit(Decode(World, Receiver, frame))

\* Frames arrive while the application removes mirrors on its own and the
\* Synchronizer ticks.
NextReceive ==
  \/ \E frame \in Frames : ReceiveStep(frame)
  \/ \E o \in Slots : steps < MaxReceiveSteps /\ DestructStep(o)
  \/ \E o \in Slots : steps < MaxReceiveSteps /\ SetSynchronizerStep(o, nullptr)
  \/ steps < MaxReceiveSteps /\ Tick(Receiver)

SpecReceive == Init /\ [][NextReceive]_vars

\* A construction with no cap on the counter other than its width.
ConstructLate(o) ==
  /\ ~objects[o].alive
  /\ m_last_id' = NewID
  /\ assigned' = Append(assigned, NewID)
  /\ Commit(SyncedObject(World, o))

\* Constructing, relocating and destroying objects until the counter has
\* been through every value of its type.
NextWrap ==
  \/ \E o \in Slots : ConstructLate(o)
  \/ \E o \in Slots, object \in Slots : MoveAssignStep(o, object)
  \/ \E o \in Slots : DestructStep(o)

SpecWrap == Init /\ [][NextWrap]_vars

\* Attaching, detaching, mutating, ticking and destroying only.
NextAttach ==
  \/ \E o \in Slots : Construct(o)
  \/ \E o \in Slots : DestructStep(o)
  \/ \E o \in Slots : NotifyChangedStep(o)
  \/ \E o \in Slots, s \in Syncs \cup {nullptr} : SetSynchronizerStep(o, s)
  \/ \E s \in Syncs : Tick(s)
  \/ \E s \in Syncs : DestroySynchronizerStep(s)

SpecAttach == Init /\ [][NextAttach]_vars

\* The same, and relocation of objects; identifiers are left as assigned.
NextMove ==
  \/ \E o \in Slots : Construct(o)
  \/ \E o \in Slots, object \in Slots : MoveConstructStep(o, object)
  \/ \E o \in Slots, object \in Slots : MoveAssignStep(o, object)
  \/ \E o \in Slots : DestructStep(o)
  \/ \E o \in Slots : NotifyChangedStep(o)
  \/ \E o \in Slots, s \in Syncs \cup {nullptr} : SetSynchronizerStep(o, s)
  \/ \E s \in Syncs : Tick(s)
  \/ \E s \in Syncs : DestroySynchronizerStep(s)

SpecMove == Init /\ [][NextMove]_vars

\* ---- replication over a transport: the sender's frames reach the receiver ----

\* A wire message with the bytes SyncedObject::Serialize returned for it.
Wire(kind, id, type_tag, bytes) ==
  [kind |-> kind, id |-> id, type_tag |-> type_tag, bytes |-> bytes]

\* The payload of a delta: the bytes of the Delta pass, then those of the
\* StreamDue pass.
DeltaBytes(w, o) ==
  LET d == Serialize(w, o, Delta)
  IN d.message.bytes \o Serialize(d, o, StreamDue).message.bytes

\* What a tick of Synchronizer s hands to the transport for object o: its
\* Create with the Full snapshot if it is Pending, then its Delta if its
\* changed flag is set or it has a due Stream field.
Outbound(w, s, o) ==
  LET id == w.objects[o].m_id
      tracked == w.syncs[s].state[id] # "None" /\ w.syncs[s].ref[id] = o
  IN (IF tracked /\ w.syncs[s].state[id] = "Pending"
      THEN <<Wire("Create", id, 1, Serialize(w, o, Full).message.bytes)>>
      ELSE <<>>)
     \o (IF tracked /\ (w.objects[o].m_changed \/ HasDueStream(w, o))
         THEN <<Wire("Delta", id, 0, DeltaBytes(w, o))>>
         ELSE <<>>)

\* A Message that holds the bytes received.
Received(bytes) == [EmptyMessage EXCEPT !.bytes = bytes]

\* The fields of the mirror the factory constructs: those of the sender's
\* type, as constructed.
MirrorFields(w) ==
  [i \in 1..Len(w.members[Sender]) |-> SyncedType(w.members[Sender][i].type, i)]

\* The receiver decodes one wire message: a Create makes the mirror and
\* applies the snapshot, a Delta is handed to the mirror for the Delta pass
\* and the StreamDue pass.
Deliver(w, r, m) ==
  LET decoded == {DecodeMessage([w EXCEPT !.message = Received(m.bytes)], r, m)}
      applied ==
        {CASE m.kind = "Create" /\ ~Known(w, r, m.id) /\ Known(w1, r, m.id) ->
                Deserialize([w1 EXCEPT !.members[w1.syncs[r].ref[m.id]] = MirrorFields(w)],
                            w1.syncs[r].ref[m.id], Full)
           [] m.kind = "Delta" /\ Known(w, r, m.id) ->
                Deserialize(w1, w1.syncs[r].ref[m.id], StreamDue)
           [] OTHER -> w1 : w1 \in decoded}
  IN CHOOSE v \in {[w2 EXCEPT !.message = w.message] : w2 \in applied} : TRUE

\* The wire messages of a frame, in the order they were handed over.
RECURSIVE DeliverAll(_, _, _)
DeliverAll(w, r, frame) ==
  IF frame = <<>> THEN w
  ELSE CHOOSE v \in {DeliverAll(w1, r, Tail(frame)) : w1 \in {Deliver(w, r, Head(frame))}} : TRUE

\* The sender with its fields, added to its Synchronizer and not yet
\* announced; the receiver knows nothing.
InitConverge ==
  /\ InitHTTPClient(0)
  /\ wire = <<>>
  /\ now = 0
  /\ period \in 0..MaxPeriod
  /\ \E schema \in [1..NFields -> SynchronizationType] :
       m_members = [o \in Slots |-> IF o = Sender THEN Announced1(schema) ELSE <<>>]
  /\ objects = [o \in Slots |->
                  IF o = Sender
                  THEN [FreshObject EXCEPT !.alive = TRUE, !.m_id = 1, !.m_synchronizer = Sender]
                  ELSE FreshObject]
  /\ syncs = [s \in Syncs |->
                IF s = Sender
                THEN [FreshSynchronizer EXCEPT !.ref[1] = Sender, !.state[1] = "Pending"]
                ELSE FreshSynchronizer]
  /\ m_last_id = 1
  /\ assigned = <<1>>
  /\ sent = [s \in Syncs |-> <<>>]
  /\ created = [s \in Syncs |-> {}]
  /\ crashed = FALSE
  /\ steps = 0
  /\ message = EmptyMessage
  /\ errors = <<>>

\* The sender's Synchronizer ticks; the transport takes the frame once it
\* has delivered the one before.
TickSender ==
  /\ ~crashed
  /\ wire = <<>>
  /\ \E w \in {Update(World, Sender)} :
       /\ objects' = w.objects
       /\ syncs' = w.syncs
       /\ m_members' = w.members
       /\ sent' = w.frame
  /\ \E frame \in {Outbound(World, Sender, Sender)} : wire' = frame
  /\ created' = [s \in Syncs |-> created[s] \cup CreatesOf(sent[s])]
  /\ UNCHANGED <<m_last_id, assigned, crashed, steps, message, now, period, errors, http>>

\* The receiver's Synchronizer ticks: it decodes what the transport has
\* delivered, in order.
TickReceiver ==
  /\ ~crashed
  /\ wire # <<>>
  /\ \E w \in {DeliverAll(World, Receiver, wire)} :
       /\ objects' = w.objects
       /\ syncs' = w.syncs
       /\ m_members' = w.members
       /\ errors' = w.errors
       /\ m_last_id' = m_last_id + Made(w)
       /\ assigned' = assigned \o [n \in 1..Made(w) |-> m_last_id + n]
  /\ wire' = <<>>
  /\ sent' = [s \in Syncs |-> <<>>]
  /\ created' = [s \in Syncs |-> created[s] \cup CreatesOf(sent[s])]
  /\ UNCHANGED <<crashed, steps, message, now, period, http>>

\* The application sets fields of the sender and time passes, a bounded
\* number of times; both Synchronizers tick for ever.
NextConverge ==
  \/ \E i \in 1..NFields : \E value \in Values(Width(i)) : SetValueStep(i, value)
  \/ AdvanceClock
  \/ TickSender
  \/ TickReceiver

SpecConverge ==
  /\ InitConverge
  /\ [][NextConverge]_vars
  /\ WF_vars(TickSender)
  /\ WF_vars(TickReceiver)

\* ---- HTTPClient ----

Requests == 1..NRequests      \* the HTTPRequest values the application sends
Addresses == 1..NAddresses    \* the host names it sends them to
Ports == {80, 443}

\* HTTPRequest{}: the request no application request is equal to.
EmptyRequest == 0

\* HTTPResponse{}: status, headers and body as received so far, piece by
\* piece.  Each piece carries the serial number of the transmission of the
\* request that the server answered with it; the serial numbers are history.
HTTPResponse ==
  [status |-> <<>>, connection |-> <<>>, header_complete |-> FALSE,
   body |-> <<>>, body_complete |-> FALSE]

\* HTTPResponse::IsComplete.
IsComplete(response) == response.header_complete /\ response.body_complete

\* What the http_parser makes of the server's bytes: the callbacks, in order.
Token(cb, sn) == [cb |-> cb, sn |-> sn]

\* The answer of the server to transmission sn of a request; a server that
\* closes the connection after the answer says so in a Connection header.
Response(sn, close) ==
  <<Token("OnStatus", sn)>>
    \o (IF close THEN <<Token("OnHeaderValue", sn)>> ELSE <<>>)
    \o <<Token("OnHeadersComplete", sn), Token("OnBody", sn), Token("OnMessageComplete", sn)>>

\* A connected socket: what has been sent on it, what the server has sent
\* back and has not been received yet, and whether the server shuts the
\* connection down after that.
Socket == [tx |-> <<>>, rx |-> <<>>, fin |-> FALSE]

\* m_socket->Send of a request.  The server answers every request it gets
\* in order, until it has announced that it closes the connection.
Send(socket, request, sn, close) ==
  [tx |-> Append(socket.tx, request),
   rx |-> IF socket.fin THEN socket.rx ELSE socket.rx \o Response(sn, close),
   fin |-> socket.fin \/ close]

\* HTTPClientPipeline::HTTPClientPipeline.  sends counts the transmissions
\* made so far (history).
HTTPClientPipeline(address, port, timeout) ==
  [address |-> address, port |-> port, m_socket |-> Socket,
   parser_error |-> FALSE, m_pipeline |-> <<>>, m_current_request |-> EmptyRequest,
   m_last_activity |-> now, m_timeout_value |-> timeout, sends |-> 0]

\* An element of m_pipeline: the pair of request and response, and, as
\* history, whether the server closes after answering this request and the
\* serial numbers of its transmissions, the latest last.
PipelineElement(request, close, sn) ==
  [first |-> request, second |-> HTTPResponse, close |-> close, sn |-> <<sn>>]

\* HTTPClientPipeline::SendRequest.
PipelineSendRequest(p, request, close) ==
  [p EXCEPT !.m_current_request = IF p.m_pipeline = <<>> THEN request ELSE @,
            !.m_socket = Send(@, request, p.sends + 1, close),
            !.m_last_activity = now,
            !.sends = @ + 1,
            !.m_pipeline = Append(@, PipelineElement(request, close, p.sends + 1))]

\* The first element of a pipeline whose request equals the given one; 0 if
\* there is none (std::end).
Find(pipeline, request) ==
  IF \E i \in 1..Len(pipeline) : pipeline[i].first = request
  THEN CHOOSE i \in 1..Len(pipeline) :
         /\ pipeline[i].first = request
         /\ \A j \in 1..(i - 1) : pipeline[j].first # request
  ELSE 0

Erase(seq, i) == SubSeq(seq, 1, i - 1) \o SubSeq(seq, i + 1, Len(seq))

\* A GetResponse that hands out a complete response and leaves its element
\* in the pipeline.
PipelineGetResponseKeeping(p, request) ==
  LET i == Find(p.m_pipeline, request) IN
  IF i = 0 THEN [result |-> HTTPResponse, pipeline |-> p]
  ELSE [result |-> p.m_pipeline[i].second, pipeline |-> p]

\* HTTPClientPipeline::GetResponse: the response returned and the pipeline
\* afterwards.
PipelineGetResponse(p, request) ==
  LET i == Find(p.m_pipeline, request) IN
  IF i = 0 THEN [result |-> HTTPResponse, pipeline |-> p]
  ELSE IF ~IsComplete(p.m_pipeline[i].second)
  THEN [result |-> p.m_pipeline[i].second, pipeline |-> p]
  ELSE [result |-> p.m_pipeline[i].second,
        pipeline |-> [p EXCEPT !.m_pipeline = Erase(@, i)]]

\* A TimedOut that takes a timeout value of 0 for a timeout like any other.
TimedOutAtZero(p, t) == t - p.m_last_activity > p.m_timeout_value

\* HTTPClientPipeline::TimedOut at time t.
TimedOut(p, t) == p.m_timeout_value # 0 /\ t - p.m_last_activity > p.m_timeout_value

\* HTTPClientPipeline::HasRequests.
HasRequests(p) == p.m_pipeline # <<>>

\* The loop of Reconnect over the pipeline from element i on.
RECURSIVE ResendFrom(_, _, _)
ResendFrom(p, i, current_set) ==
  IF i > Len(p.m_pipeline) THEN p
  ELSE LET e == p.m_pipeline[i] IN
       IF IsComplete(e.second) THEN ResendFrom(p, i + 1, current_set)
       ELSE ResendFrom([p EXCEPT !.m_current_request = IF current_set THEN @ ELSE e.first,
                                 !.m_socket = Send(@, e.first, p.sends + 1, e.close),
                                 !.sends = @ + 1,
                                 !.m_pipeline[i].sn = Append(@, p.sends + 1)],
                       i + 1, TRUE)

\* A Reconnect that sends every request of the pipeline again, answered or
\* not.
RECURSIVE ResendAllFrom(_, _)
ResendAllFrom(p, i) ==
  IF i > Len(p.m_pipeline) THEN p
  ELSE ResendAllFrom([p EXCEPT !.m_current_request = IF i = 1 THEN p.m_pipeline[i].first ELSE @,
                               !.m_socket = Send(@, p.m_pipeline[i].first, p.sends + 1,
                                                 p.m_pipeline[i].close),
                               !.sends = @ + 1,
                               !.m_pipeline[i].sn = Append(@, p.sends + 1)],
                     i + 1)

ReconnectResendingAll(p) ==
  ResendAllFrom([p EXCEPT !.m_socket = Socket, !.parser_error = FALSE], 1)

\* HTTPClientPipeline::Reconnect: a new socket, a new parser, and every
\* request whose response is not complete sent again.
Reconnect(p) ==
  ResendFrom([p EXCEPT !.m_socket = Socket, !.parser_error = FALSE], 1, FALSE)

\* OnMessageComplete once the element has been found.
MessageComplete(p, i) ==
  LET p1 == [p EXCEPT !.m_pipeline[i].second.body_complete = TRUE]
      p2 == IF p1.m_pipeline[i].second.connection = <<"close">> THEN Reconnect(p1) ELSE p1
  IN [p2 EXCEPT !.m_current_request =
                   IF i = Len(p2.m_pipeline) THEN EmptyRequest ELSE p2.m_pipeline[i + 1].first]

\* One callback of the parser.  The callbacks that touch the response look
\* for the first element whose request equals m_current_request and fail
\* the parse if there is none.
Callback(p, token) ==
  LET i == Find(p.m_pipeline, p.m_current_request) IN
  IF i = 0 THEN [p EXCEPT !.parser_error = TRUE]
  ELSE CASE token.cb = "OnStatus" ->
              [p EXCEPT !.m_pipeline[i].second.status = Append(@, token.sn)]
         [] token.cb = "OnHeaderValue" ->
              [p EXCEPT !.m_pipeline[i].second.connection = Append(@, "close")]
         [] token.cb = "OnHeadersComplete" ->
              [p EXCEPT !.m_pipeline[i].second.header_complete = TRUE]
         [] token.cb = "OnBody" ->
              [p EXCEPT !.m_pipeline[i].second.body = Append(@, token.sn)]
         [] token.cb = "OnMessageComplete" -> MessageComplete(p, i)

\* http_parser_execute on the data received: callback after callback, until
\* one fails; a parser that has failed parses nothing more.  q is the
\* pipeline after the first callback.
RECURSIVE Execute(_, _)
Execute(p, data) ==
  IF data = <<>> \/ p.parser_error THEN p
  ELSE CHOOSE r \in {Execute(q, Tail(data)) : q \in {Callback(p, Head(data))}} : TRUE

\* HTTPClientPipeline::Update when the first n callbacks' worth of the
\* server's data has arrived.
PipelineUpdate(p, n) ==
  IF TimedOut(p, now)
  THEN IF HasRequests(p) THEN Reconnect([p EXCEPT !.m_last_activity = now]) ELSE p
  ELSE IF n = 0
  THEN IF p.m_socket.fin /\ p.m_socket.rx = <<>> THEN Reconnect(p) ELSE p
  ELSE LET data == SubSeq(p.m_socket.rx, 1, n)
           p1 == [p EXCEPT !.m_last_activity = now,
                           !.m_socket.rx = SubSeq(@, n + 1, Len(@))]
           p2 == Execute(p1, data)
       IN IF p1.parser_error \/ p2.parser_error THEN p2
          ELSE IF p2.m_socket.fin /\ p2.m_socket.rx = <<>> THEN Reconnect(p2)
          ELSE p2

\* The pipeline of HTTPClient for an address and port; 0 if there is none.
FindPipeline(pipelines, address, port) ==
  IF \E i \in 1..Len(pipelines) : pipelines[i].address = address /\ pipelines[i].port = port
  THEN CHOOSE i \in 1..Len(pipelines) :
         /\ pipelines[i].address = address /\ pipelines[i].port = port
         /\ \A j \in 1..(i - 1) : ~(pipelines[j].address = address /\ pipelines[j].port = port)
  ELSE 0

\* A SendRequest that opens a connection for every request.
SendRequestOpening(pipelines, request, address, port, resolved, close) ==
  IF ~resolved THEN pipelines
  ELSE Append(pipelines,
              PipelineSendRequest(HTTPClientPipeline(address, port, m_timeout_value), request, close))

\* HTTPClient::SendRequest: m_pipelines afterwards.
SendRequest(pipelines, request, address, port, resolved, close) ==
  IF ~resolved THEN pipelines
  ELSE LET found == FindPipeline(pipelines, address, port)
           all == IF found = 0
                  THEN Append(pipelines, HTTPClientPipeline(address, port, m_timeout_value))
                  ELSE pipelines
           i == IF found = 0 THEN Len(all) ELSE found
       IN [all EXCEPT ![i] = PipelineSendRequest(@, request, close)]

\* HTTPClient::GetResponse: the response returned and m_pipelines afterwards.
GetResponse(pipelines, request, address, port) ==
  LET i == FindPipeline(pipelines, address, port) IN
  IF i = 0 THEN [result |-> HTTPResponse, pipelines |-> pipelines]
  ELSE LET r == PipelineGetResponse(pipelines[i], request)
       IN [result |-> r.result, pipelines |-> [pipelines EXCEPT ![i] = r.pipeline]]

\* ---- HTTPClient: the state machine ----

\* The variables of the replication core, which HTTPClient does not touch.
replication == <<objects, syncs, m_last_id, assigned, sent, created, crashed,
                 m_members, message, period, errors, wire>>

\* An operation of the application on HTTPClient; it is not inside Update.
Application ==
  /\ steps < MaxHTTPSteps
  /\ iter = 0
  /\ steps' = steps + 1
  /\ UNCHANGED <<replication, now, iter, m_timeout_value>>

SendRequestStep(request, address, port, resolved, close) ==
  /\ Application
  /\ FindPipeline(m_pipelines, address, port) = 0 => Len(m_pipelines) < MaxPipelines
  /\ FindPipeline(m_pipelines, address, port) # 0 =>
       Len(m_pipelines[FindPipeline(m_pipelines, address, port)].m_pipeline) < MaxPipeline
  /\ m_pipelines' = SendRequest(m_pipelines, request, address, port, resolved, close)

GetResponseStep(request, address, port) ==
  /\ Application
  /\ m_pipelines' = GetResponse(m_pipelines, request, address, port).pipelines

\* HTTPClient::Update is entered: iter = std::begin( m_pipelines ).
UpdateBegin ==
  /\ steps < MaxHTTPSteps
  /\ iter = 0
  /\ m_pipelines # <<>>
  /\ iter' = 1
  /\ UNCHANGED <<replication, steps, now, m_pipelines, m_timeout_value>>

\* The body of the loop of HTTPClient::Update at position i, when the
\* pipeline's Update gets n callbacks' worth of data and returns at time t:
\* m_pipelines and the loop's iterator afterwards (0 for std::end).
Iteration(pipelines, i, n, t) ==
  LET p == PipelineUpdate(pipelines[i], n)
      updated == [pipelines EXCEPT ![i] = p]
      erased == TimedOut(p, t) /\ ~HasRequests(p)
      next == IF TimedOut(p, t) THEN i ELSE i + 1
      after == IF erased THEN Erase(updated, i) ELSE updated
  IN [pipelines |-> after, iter |-> IF next > Len(after) THEN 0 ELSE next]

\* One iteration of the loop of HTTPClient::Update: the pipeline's Update,
\* with n callbacks' worth of data arrived, takes `elapsed` of the clock;
\* then the pipeline is erased, or stepped over, or neither.
UpdateIteration(n, elapsed) ==
  /\ steps < MaxHTTPSteps
  /\ iter # 0
  /\ n <= Len(m_pipelines[iter].m_socket.rx)
  /\ now + elapsed <= MaxTime
  /\ now' = now + elapsed
  /\ steps' = steps + 1
  /\ m_pipelines' = Iteration(m_pipelines, iter, n, now').pipelines
  /\ iter' = Iteration(m_pipelines, iter, n, now').iter
  /\ UNCHANGED <<replication, m_timeout_value>>

\* The server gives up on a connection after the first n callbacks' worth
\* of what it had to send.
RemoteShutdown(i, n) ==
  /\ steps < MaxHTTPSteps
  /\ i <= Len(m_pipelines)
  /\ ~m_pipelines[i].m_socket.fin
  /\ n <= Len(m_pipelines[i].m_socket.rx)
  /\ m_pipelines' = [m_pipelines EXCEPT ![i].m_socket.rx = SubSeq(@, 1, n),
                                        ![i].m_socket.fin = TRUE]
  /\ steps' = steps + 1
  /\ UNCHANGED <<replication, now, iter, m_timeout_value>>

\* Time passes between two operations.
Elapse ==
  /\ steps < MaxHTTPSteps
  /\ now < MaxTime
  /\ now' = now + 1
  /\ steps' = steps + 1
  /\ UNCHANGED <<replication, m_pipelines, iter, m_timeout_value>>

\* The replication core is idle; the application has set a timeout on
\* HTTPClient.
InitHTTP ==
  /\ objects = [o \in Slots |-> FreshObject]
  /\ syncs = [s \in Syncs |-> FreshSynchronizer]
  /\ m_last_id = invalid_id
  /\ assigned = <<>>
  /\ sent = [s \in Syncs |-> <<>>]
  /\ created = [s \in Syncs |-> {}]
  /\ crashed = FALSE
  /\ steps = 0
  /\ m_members = [o \in Slots |-> <<>>]
  /\ message = EmptyMessage
  /\ now = 0
  /\ period = 1
  /\ errors = <<>>
  /\ \E timeout \in 0..MaxTimeout : InitHTTPClient(timeout)
  /\ wire = <<>>

\* One host: requests are pipelined on one connection, answered piece by
\* piece, retrieved, timed out and sent again.
NextPipeline ==
  \/ \E request \in Requests, close \in BOOLEAN : SendRequestStep(request, 1, 80, TRUE, close)
  \/ \E request \in Requests : GetResponseStep(request, 1, 80)
  \/ UpdateBegin
  \/ /\ iter # 0
     /\ \E n \in 0..Len(m_pipelines[iter].m_socket.rx), elapsed \in 0..MaxDelay :
          UpdateIteration(n, elapsed)
  \/ /\ m_pipelines # <<>>
     /\ \E n \in 0..Len(m_pipelines[1].m_socket.rx) : RemoteShutdown(1, n)
  \/ Elapse

SpecPipeline == InitHTTP /\ [][NextPipeline]_vars

\* Several hosts and ports, names that do not resolve; the servers answer
\* and the answers arrive whole.
NextClient ==
  \/ \E address \in Addresses, port \in Ports, resolved \in BOOLEAN :
       SendRequestStep(1, address, port, resolved, FALSE)
  \/ \E address \in Addresses, port \in Ports : GetResponseStep(1, address, port)
  \/ UpdateBegin
  \/ /\ iter # 0
     /\ \E elapsed \in 0..MaxDelay :
          UpdateIteration(Len(m_pipelines[iter].m_socket.rx), elapsed)
  \/ Elapse

SpecClient == InitHTTP /\ [][NextClient]_vars

\* ---- HTTPClient: runs that go on forever ----

\* A pipeline without what is kept for the record only: the serial numbers
\* of the transmissions, what has been sent on the socket, and the text of
\* status and body.  A Connection header is "close" or it is not: values
\* of more than two pieces are cut to two.
WithoutHistory(p) ==
  [p EXCEPT !.sends = 0,
            !.m_socket.tx = <<>>,
            !.m_socket.rx = [n \in DOMAIN @ |-> Token(@[n].cb, 0)],
            !.m_pipeline =
              [k \in DOMAIN @ |->
                 [@[k] EXCEPT !.sn = <<0>>,
                              !.second.status = <<>>,
                              !.second.body = <<>>,
                              !.second.connection =
                                IF Len(@) > 2 THEN SubSeq(@, 1, 2) ELSE @]]]

AllWithoutHistory(pipelines) ==
  [i \in DOMAIN pipelines |-> WithoutHistory(pipelines[i])]

\* The application sends a request to the host, at most MaxSends times.
LiveSendRequest(request, close) ==
  /\ iter = 0
  /\ steps < MaxSends
  /\ steps' = steps + 1
  /\ m_pipelines' = AllWithoutHistory(SendRequest(m_pipelines, request, 1, 80, TRUE, close))
  /\ UNCHANGED <<replication, now, iter, m_timeout_value>>

\* The application asks for the response to a request.
LiveGetResponse(request) ==
  /\ iter = 0
  /\ m_pipelines' = GetResponse(m_pipelines, request, 1, 80).pipelines
  /\ UNCHANGED <<replication, steps, now, iter, m_timeout_value>>

\* The application calls HTTPClient::Update.
LiveUpdateBegin ==
  /\ iter = 0
  /\ m_pipelines # <<>>
  /\ iter' = 1
  /\ UNCHANGED <<replication, steps, now, m_pipelines, m_timeout_value>>

\* An iteration of the loop of Update with n callbacks' worth of data
\* arrived; it takes no time.
LiveUpdateIteration(n) ==
  /\ iter # 0
  /\ n <= Len(m_pipelines[iter].m_socket.rx)
  /\ m_pipelines' = AllWithoutHistory(Iteration(m_pipelines, iter, n, now).pipelines)
  /\ iter' = Iteration(m_pipelines, iter, n, now).iter
  /\ UNCHANGED <<replication, steps, now, m_timeout_value>>

\* An iteration of the loop of Update when all the server has sent has
\* arrived.
LiveUpdateIterationAll ==
  /\ iter # 0
  /\ LiveUpdateIteration(Len(m_pipelines[iter].m_socket.rx))

\* Time passes while no connection has anything to read: what the server
\* sends is read before the timeout is over.  Clock readings count by
\* their distance only; when the clock is at MaxTime, the time of the last
\* activity is moved back instead.
LiveElapse ==
  /\ \A i \in 1..Len(m_pipelines) : m_pipelines[i].m_socket.rx = <<>>
  /\ IF now < MaxTime
     THEN now' = now + 1 /\ UNCHANGED m_pipelines
     ELSE /\ UNCHANGED now
          /\ m_pipelines' = [i \in DOMAIN m_pipelines |->
                               [m_pipelines[i] EXCEPT !.m_last_activity =
                                                        IF @ > 0 THEN @ - 1 ELSE 0]]
  /\ UNCHANGED <<replication, steps, iter, m_timeout_value>>

NextLive ==
  \/ \E request \in Requests, close \in BOOLEAN : LiveSendRequest(request, close)
  \/ \E request \in Requests : LiveGetResponse(request)
  \/ LiveUpdateBegin
  \/ /\ iter # 0
     /\ \E n \in 0..Len(m_pipelines[iter].m_socket.rx) : LiveUpdateIteration(n)
  \/ LiveElapse

\* The application calls Update again and again and asks for the response
\* to every request again and again between the Updates; what the server
\* has sent arrives; time passes.
SpecLive ==
  /\ InitHTTP
  /\ [][NextLive]_vars
  /\ WF_vars(LiveUpdateBegin)
  /\ SF_vars(LiveUpdateIterationAll)
  /\ \A request \in Requests : SF_vars(LiveGetResponse(request))
  /\ WF_vars(LiveElapse)

\* ---- properties ----

Live(s, k) == syncs[s].state[k] = "Live"
Pending(s, k) == syncs[s].state[k] = "Pending"

\* The storage Synchronizer s holds references to.
Referenced(s) == {syncs[s].ref[k] : k \in Tracked(syncs[s])}

HasCall(w, op) == \E i \in 1..Len(w.calls) : w.calls[i].op = op

\* C1: in every frame a Synchronizer hands to the transport, a Delta for an
\* identifier comes after a Create for it: one in an earlier frame, or one
\* ahead of it in the same frame (the object added and mutated before the
\* same tick).
C1_CreateBeforeDelta ==
  \A s \in Syncs : \A i \in 1..Len(sent[s]) :
    sent[s][i].kind = "Delta" =>
      \/ sent[s][i].id \in created[s]
      \/ \E j \in 1..(i - 1) : sent[s][j] = Msg("Create", sent[s][i].id)

\* An object added and mutated before its first tick: the frame of that tick
\* carries its Create and then its Delta.
C1_Witness ==
  \E s \in Syncs, k \in Ids :
    /\ k \notin created[s]
    /\ sent[s] = <<Msg("Create", k), Msg("Delta", k)>>

\* C2: the identifiers handed out at construction are strictly increasing
\* and no two live objects have the same identifier.
C2_UniqueLiveIds ==
  /\ \A i, j \in 1..Len(assigned) : i < j => assigned[i] < assigned[j]
  /\ \A a, b \in Slots :
       (a # b /\ objects[a].alive /\ objects[b].alive) => objects[a].m_id # objects[b].m_id

\* What a move from source object, attached to S and tracked there, has to
\* leave behind in destination o.
Relocated(o, object) ==
  LET S  == objects[object].m_synchronizer
      id == objects[object].m_id
  IN (/\ S # nullptr
      /\ ~syncs[S].destroyed
      /\ syncs[S].state[id] # "None"
      /\ syncs[S].ref[id] = object
      /\ ~crashed')
     => /\ objects'[o].m_id = id
        /\ objects'[o].m_synchronizer = S
        /\ syncs'[S].ref[id] = o
        /\ syncs'[S].state[id] = syncs[S].state[id]
        /\ objects'[o].m_changed = objects[object].m_changed

\* C3: a move construction or move assignment from a source attached to S
\* leaves the destination with the source's identifier, associated with S,
\* referenced by S's entry for the identifier, and with the changed flag and
\* the Pending/Live state as they were.
C3_MovePreservesState ==
  [][\A o, object \in Slots :
       (MoveConstructStep(o, object) \/ MoveAssignStep(o, object)) => Relocated(o, object)]_vars

\* A move enqueues nothing: no frame is handed to the transport, and in the
\* Synchronizer the source is attached to, the moved identity is neither
\* scheduled for a Destroy nor registered anew.
NothingEnqueued(object) ==
  LET S  == objects[object].m_synchronizer
      id == objects[object].m_id
  IN /\ \A s \in Syncs : sent'[s] = <<>>
     /\ (S # nullptr /\ ~crashed') =>
          /\ syncs'[S].removals = syncs[S].removals
          /\ syncs'[S].state[id] = syncs[S].state[id]

\* C4: no move, whatever source and destination are attached to, performs a
\* RemoveObject/AddObject pair, and none enqueues a Create, Delta or Destroy.
C4_MoveIsRelocation ==
  [][\A o, object \in Slots :
       /\ MoveConstructStep(o, object) =>
            /\ ~(HasCall(MoveConstruct(World, o, object), "RemoveObject")
                  /\ HasCall(MoveConstruct(World, o, object), "AddObject"))
            /\ NothingEnqueued(object)
       /\ MoveAssignStep(o, object) =>
            /\ ~(HasCall(MoveAssign(World, o, object), "RemoveObject")
                  /\ HasCall(MoveAssign(World, o, object), "AddObject"))
            /\ NothingEnqueued(object)]_vars

\* C5: every reference in a Synchronizer's tracking table is to storage
\* that holds a live object.
C5_NoDanglingReference ==
  \A s \in Syncs : \A o \in Referenced(s) : objects[o].alive

\* C6: a live object is tracked by Synchronizer s exactly when its own
\* association is s (so by one Synchronizer at most).
C6_OneSynchronizer ==
  \A o \in Slots : objects[o].alive =>
    \A s \in Syncs : (o \in Referenced(s)) <=> (objects[o].m_synchronizer = s)

\* C7: the entries of one tracking table stand for different identifiers:
\* no two entries lead to objects with the same identifier.
C7_NoIdentifierTwice ==
  \A s \in Syncs : \A k1, k2 \in Tracked(syncs[s]) :
    k1 # k2 => objects[syncs[s].ref[k1]].m_id # objects[syncs[s].ref[k2]].m_id

\* The Synchronizer refused an AddObject made by this operation.
Refused(w) ==
  \E i \in 1..Len(w.calls) :
    w.calls[i].op = "AddObject" /\ w.calls[i].result = "DuplicateIdentifier"

\* C8: an AddObject refused with DuplicateIdentifier leaves the table and the
\* schedule as they were, and the failure reaches the caller of the operation
\* that made the call.
C8_DuplicateSurfaced ==
  [][\A o \in Slots, s \in Syncs :
       (SetSynchronizerStep(o, s) /\ Refused(SetSynchronizer(World, o, s)) /\ ~crashed') =>
         /\ SetSynchronizer(World, o, s).result = "DuplicateIdentifier"
         /\ objects[o].m_synchronizer = nullptr => syncs'[s] = syncs[s]]_vars

C10_NoDeltaWithoutCreate ==
  \A s \in Syncs :
    {sent[s][i].id : i \in {j \in 1..Len(sent[s]) : sent[s][j].kind = "Delta"}}
      \subseteq created[s] \cup CreatesOf(sent[s])

\* The number of times message m is in a frame.
Count(frame, m) == Cardinality({i \in 1..Len(frame) : frame[i] = m})

\* The identifiers a frame carries a Create or a Delta for.
Announced(frame) ==
  {frame[i].id : i \in {j \in 1..Len(frame) : frame[j].kind \in {"Create", "Delta"}}}

\* C11: taking a Live object out of its Synchronizer (detaching it, moving
\* it to another Synchronizer, destroying it) purges the identifier from the
\* table at once and schedules its Destroy; the next tick hands exactly one
\* Destroy for it to the transport, and a tick hands over nothing for an
\* identifier that is neither tracked nor scheduled for removal, whatever
\* was done to the removed object in between.
C11_RemovalPurgesAndDestroysOnce ==
  [][\A s \in Syncs :
       /\ \A k \in Ids, o \in Slots :
            (/\ objects[o].alive
             /\ objects[o].m_synchronizer = s
             /\ objects[o].m_id = k
             /\ Live(s, k)
             /\ ~objects'[o].alive \/ objects'[o].m_synchronizer # s
             /\ ~syncs'[s].destroyed
             /\ ~crashed')
            => /\ syncs'[s].state[k] = "None"
               /\ syncs'[s].ref[k] = nullptr
               /\ k \in syncs'[s].removals
       /\ (/\ ~crashed'
           /\ m_last_id' = m_last_id
           /\ \A o \in Slots : /\ objects'[o].alive = objects[o].alive
                               /\ objects'[o].m_synchronizer = objects[o].m_synchronizer
           /\ Tick(s)) =>
            \A k \in Ids :
              /\ k \in syncs[s].removals =>
                   /\ Count(sent'[s], Msg("Destroy", k)) = 1
                   /\ k \notin syncs'[s].removals
              /\ syncs[s].state[k] = "None" => k \notin Announced(sent'[s])
              /\ (syncs[s].state[k] = "None" /\ k \notin syncs[s].removals) =>
                   \A i \in 1..Len(sent'[s]) : sent'[s][i].id # k]_vars

\* A Live object was detached and then mutated; the tick that follows hands
\* over its Destroy and nothing else.
C11_Witness ==
  \E s \in Syncs, o \in Slots :
    /\ objects[o].alive
    /\ objects[o].m_changed
    /\ objects[o].m_synchronizer = nullptr
    /\ objects[o].m_id \in created[s]
    /\ sent[s] = <<Msg("Destroy", objects[o].m_id)>>

\* The Message in flight is what serializing the sender for the pass gives now.
InFlight(sync_type) ==
  message = [Serialize(World, Sender, sync_type).message EXCEPT !.tag = sync_type]

\* The step is a serialization of the sender for the pass.
Serialized(sync_type) ==
  message'.tag = sync_type /\ message'.pos = 0 /\ SerializeStep(sync_type)

\* The step applies the Message in flight to the mirror, with its pass.
Deserialized(sync_type) ==
  message.tag = sync_type /\ message'.bytes = message.bytes /\ DeserializeStep(sync_type)

\* The Message has been read to its end, and no read failed.
ReadExactly(msg) == ~msg.underrun /\ msg.pos = Len(msg.bytes)

\* C12: a Full serialization of the sender, applied by a Full
\* deserialization to the mirror (same fields, same registration order),
\* leaves every mirror field, of whatever policy and dirty or not, with the
\* value of the sender's field.
C12_FullRoundTrip ==
  [][(Deserialized(Full) /\ InFlight(Full)) =>
       /\ \A i \in 1..NFields :
            m_members'[Mirror][i].m_value = m_members[Sender][i].m_value
       /\ ReadExactly(message')]_vars

\* The sender has a field that is clean and a field application code has
\* set, and the mirror has the sender's values after the Full round trip.
C12_Witness ==
  /\ message.tag = Full
  /\ message.pos > 0
  /\ ReadExactly(message)
  /\ \E i \in 1..NFields : ~m_members[Sender][i].m_modified
  /\ \E i \in 1..NFields : m_members[Sender][i].m_value # 0
  /\ \A i \in 1..NFields :
       m_members[Mirror][i].m_value = m_members[Sender][i].m_value

\* The bytes of the fields of a field list whose index is in S, in order.
RECURSIVE Payload(_, _, _)
Payload(members, S, i) ==
  IF i > Len(members) THEN <<>>
  ELSE (IF i \in S THEN Bytes(members[i].m_value, members[i].width) ELSE <<>>)
         \o Payload(members, S, i + 1)

\* The sender's Dynamic fields whose dirty flag is set.
DirtyDynamic ==
  {i \in 1..NFields : m_members[Sender][i].type = "Dynamic" /\ m_members[Sender][i].m_modified}

NotStatic == {i \in 1..NFields : m_members[Sender][i].type # "Static"}

DueStream ==
  {i \in 1..NFields : /\ m_members[Sender][i].type = "Stream"
                      /\ now - m_members[Sender][i].m_synced >= period}

Present == {message.wrote[n].member : n \in 1..Len(message.wrote)}

\* C16: applying a Message to the mirror with the pass it was serialized
\* for reads the Message exactly to its end, gives each field the sender
\* wrote the value written for it, and leaves every other mirror field as it
\* was.
C16_SerializeDeserializeSymmetry ==
  [][\A sync_type \in SynchronizationType :
       Deserialized(sync_type) =>
         /\ ReadExactly(message')
         /\ \A n \in 1..Len(message.wrote) :
              m_members'[Mirror][message.wrote[n].member].m_value = message.wrote[n].value
         /\ \A i \in (1..NFields) \ Present :
              m_members'[Mirror][i].m_value = m_members[Mirror][i].m_value]_vars

\* The mirror has a Stream field whose timer has run for the period.
MirrorStreams == HasDueStream(World, Mirror)

\* C17: SetValue by application code stores the value, sets the field's
\* modified flag, sets the owner's changed flag and has the owner call
\* UpdateObject; applying a Message to the mirror sets no modified flag,
\* leaves the owner as it was, calls nothing on the Synchronizer and hands
\* nothing to the transport, so a tick of the receiving side hands over no
\* Delta for the mirror on account of what was applied (a mirror hands one
\* over only for a Stream field of its own that is due).
C17_NoEcho ==
  [][/\ \A i \in 1..NFields : \A value \in Values(Width(i)) :
           (m_members'[Sender][i].m_value = value /\ message' = message
              /\ SetValueStep(i, value)) =>
             /\ m_members'[Sender][i].m_modified
             /\ objects'[Sender].m_changed
             /\ HasCall(SetValue(World, Sender, i, value), "UpdateObject")
     /\ \A sync_type \in SynchronizationType :
           Deserialized(sync_type) =>
             /\ \A i \in 1..NFields :
                  m_members'[Mirror][i].m_modified = m_members[Mirror][i].m_modified
             /\ objects' = objects
             /\ syncs' = syncs
             /\ Deserialize(World, Mirror, sync_type).calls = <<>>
             /\ \A s \in Syncs : sent'[s] = <<>>
     /\ (message' = message /\ now' = now /\ period' = period
           /\ steps < MaxFieldSteps /\ Tick(Mirror)) =>
           (~MirrorStreams => sent'[Mirror] = <<>>)]_vars

\* Application code has set a sender field, the value has been applied to
\* the mirror, and the mirror's owner is still unchanged.
C17_Witness ==
  /\ message.tag # "None"
  /\ message.pos > 0
  /\ ReadExactly(message)
  /\ objects[Sender].m_changed
  /\ ~objects[Mirror].m_changed
  /\ \E i \in 1..NFields :
       /\ m_members[Mirror][i].m_value # 0
       /\ m_members[Mirror][i].m_value = m_members[Sender][i].m_value

\* C18: NotifyChanged sets the object's changed flag, calls UpdateObject
\* exactly when a Synchronizer is attached, and hands nothing to the
\* transport; on an object whose flag is already set it leaves every object
\* and every Synchronizer as they were; and the next tick hands over exactly
\* one Delta for a tracked object whose flag is set, however often it was
\* notified.
C18_NotifyChangedIdempotent ==
  [][/\ \A o \in Slots :
          (steps' = steps + 1 /\ m_last_id' = m_last_id /\ objects[o].alive
             /\ objects'[o].alive /\ ~crashed' /\ NotifyChangedStep(o)) =>
            /\ objects'[o].m_changed
            /\ HasCall(NotifyChanged(World, o), "UpdateObject")
                 <=> objects[o].m_synchronizer # nullptr
            /\ \A s \in Syncs : sent'[s] = <<>>
            /\ objects[o].m_changed => (objects' = objects /\ syncs' = syncs)
     /\ \A s \in Syncs, o \in Slots :
          (/\ objects[o].alive
           /\ objects[o].m_changed
           /\ objects[o].m_synchronizer = s
           /\ syncs[s].ref[objects[o].m_id] = o
           /\ steps' = steps + 1
           /\ m_last_id' = m_last_id
           /\ syncs'[s].removals = {}
           /\ ~crashed'
           /\ Tick(s))
          => /\ Count(sent'[s], Msg("Delta", objects[o].m_id)) = 1
             /\ ~objects'[o].m_changed]_vars

\* An attached object was notified, and the tick that followed handed over
\* its one Delta and cleared the flag.
C18_Witness ==
  \E s \in Syncs, o \in Slots :
    /\ objects[o].alive
    /\ objects[o].m_synchronizer = s
    /\ ~objects[o].m_changed
    /\ sent[s] = <<Msg("Delta", objects[o].m_id)>>

\* The frame has nothing but Deltas and Destroys for identifiers the
\* receiving Synchronizer does not know.
UnknownOnly(frame) ==
  \A n \in 1..Len(frame) :
    /\ frame[n].kind \in {"Delta", "Destroy"}
    /\ ~Known(World, Receiver, frame[n].id)

\* C19: in every state of the receiving side, decoding a frame of Deltas
\* and Destroys for unknown identifiers surfaces no error, touches no freed
\* storage, makes no mirror, and leaves every object, the tracking table and
\* the schedule as they were.
C19_UnknownIdentifierIgnored ==
  \A frame \in Frames :
    (~syncs[Receiver].destroyed /\ UnknownOnly(frame)) =>
      LET w == Decode(World, Receiver, frame)
      IN /\ w.errors = <<>>
         /\ ~w.ub
         /\ w.calls = <<>>
         /\ w.objects = objects
         /\ w.syncs = syncs
         /\ \A s \in Syncs : w.frame[s] = <<>>

\* The race with a local removal: a mirror was made for an inbound Create,
\* the application has removed it, and its Destroy is still scheduled; the
\* identifier is unknown to the Synchronizer when the peer's next Delta or
\* Destroy for it comes in.
C19_Witness ==
  /\ Len(assigned) = 1
  /\ \A o \in Slots : ~objects[o].alive
  /\ errors = <<>>
  /\ \E k \in Ids :
       /\ syncs[Receiver].removals = {k}
       /\ ~Known(World, Receiver, k)
       /\ UnknownOnly(<<Inbound("Delta", k, 0), Inbound("Destroy", k, 0)>>)

\* The frame without its Creates of unregistered types.
Registered(frame) ==
  SelectSeq(frame, LAMBDA m : ~(m.kind = "Create" /\ m.type_tag \notin Registry))

\* C20: decoding a frame with Creates of unregistered types surfaces one
\* UnknownTypeTag for each of them, touches no freed storage, makes no
\* mirror for them, and otherwise does to the objects and the table exactly
\* what decoding the frame without them does: the messages after a dropped
\* Create are decoded as if it had not been there.
C20_UnknownTypeTagDropped ==
  \A frame \in Frames :
    (Decodable(frame) /\ Len(Registered(frame)) < Len(frame)) =>
      LET w == Decode(World, Receiver, frame)
          g == Decode(World, Receiver, Registered(frame))
      IN /\ w.errors = [n \in 1..(Len(frame) - Len(Registered(frame))) |-> "UnknownTypeTag"]
         /\ ~w.ub
         /\ Made(w) = Made(g)
         /\ w.objects = g.objects
         /\ w.syncs = g.syncs
         /\ \A n \in 1..Len(frame) :
              (/\ frame[n].kind = "Create"
               /\ frame[n].type_tag \notin Registry
               /\ ~Known(World, Receiver, frame[n].id)
               /\ frame[n].id \notin Instantiations(frame))
              => ~Known(w, Receiver, frame[n].id)

\* One frame had a Create of an unregistered type and, after it, a Create
\* of a registered one: the error is surfaced and the second mirror is there.
C20_Witness ==
  /\ steps = 1
  /\ errors = <<"UnknownTypeTag">>
  /\ \E k \in Ids :
       /\ Live(Receiver, k)
       /\ objects[syncs[Receiver].ref[k]].alive
       /\ objects[syncs[Receiver].ref[k]].m_id = k

\* Deserialize as far as member n and no further.
RECURSIVE DeserializeUpTo(_, _, _, _)
DeserializeUpTo(w, o, n, sync_type) ==
  IF n = 0 THEN w
  ELSE SyncedTypeDeserialize(DeserializeUpTo(w, o, n - 1, sync_type), o, n, sync_type)

\* C21: when applying a Message to the mirror runs past its end, the
\* Underrun is reported on the Message, and decoding stops at the member
\* whose read failed: the mirror's fields and the cursor are as the members
\* before it left them, no later member has read or stored anything.
C21_UnderrunStopsDecoding ==
  [][\A sync_type \in SynchronizationType :
       (message'.underrun /\ Deserialized(sync_type)) =>
         \E n \in 1..NFields :
           LET before == DeserializeUpTo(World, Mirror, n - 1, sync_type)
               failed == DeserializeUpTo(World, Mirror, n, sync_type)
           IN /\ ~before.message.underrun
              /\ failed.message.underrun
              /\ m_members'[Mirror] = failed.members[Mirror]
              /\ message'.pos = failed.message.pos]_vars

\* C22: the identifiers handed out are valid and strictly increasing: no
\* construction, not even one after the counter has reached the largest
\* value of its type, yields the invalid identifier or one that is not
\* above every identifier assigned before.
C22_CounterSaturates ==
  \A n \in 1..Len(assigned) :
    /\ assigned[n] # invalid_id
    /\ \A m \in 1..(n - 1) : assigned[m] < assigned[n]

Pieces(response) ==
  {response.status[n] : n \in 1..Len(response.status)}
    \cup {response.body[n] : n \in 1..Len(response.body)}

\* The serial numbers of the transmissions of an element's request.
Transmissions(e) == {e.sn[n] : n \in 1..Len(e.sn)}

\* C25: what the server sends in answer to a transmission of a request is
\* stored in the pipeline element that transmission was made for: no parse
\* has failed to find the element, and every piece of every element's
\* response answers a transmission of that element's request.
C25_ResponseOfItsRequest ==
  \A i \in 1..Len(m_pipelines) :
    /\ ~m_pipelines[i].parser_error
    /\ \A k \in 1..Len(m_pipelines[i].m_pipeline) :
         Pieces(m_pipelines[i].m_pipeline[k].second)
           \subseteq Transmissions(m_pipelines[i].m_pipeline[k])

\* No two pipelines are for the same address and port.
OnePipelineEach(pipelines) ==
  \A i, j \in 1..Len(pipelines) :
    (pipelines[i].address = pipelines[j].address /\ pipelines[i].port = pipelines[j].port)
      => i = j

\* C26: HTTPClient never holds two pipelines for one address and port.  A
\* SendRequest for an address and port that have a pipeline leaves the
\* number of pipelines and every other pipeline as they were, and sends the
\* request on the socket that pipeline already has, putting it last in the
\* pipeline; a SendRequest whose name does not resolve changes nothing.
C26_PersistentConnections ==
  [][/\ OnePipelineEach(m_pipelines')
     /\ \A request \in Requests, address \in Addresses, port \in Ports,
           resolved \in BOOLEAN, close \in BOOLEAN :
          (steps' = steps + 1 /\ now' = now
           /\ SendRequestStep(request, address, port, resolved, close)) =>
            LET found == FindPipeline(m_pipelines, address, port) IN
            IF ~resolved THEN m_pipelines' = m_pipelines
            ELSE IF found = 0 THEN Len(m_pipelines') = Len(m_pipelines) + 1
            ELSE /\ Len(m_pipelines') = Len(m_pipelines)
                 /\ \A j \in 1..Len(m_pipelines) : j # found => m_pipelines'[j] = m_pipelines[j]
                 /\ m_pipelines'[found].m_socket.tx = Append(m_pipelines[found].m_socket.tx, request)
                 /\ Len(m_pipelines'[found].m_pipeline) = Len(m_pipelines[found].m_pipeline) + 1
                 /\ SubSeq(m_pipelines'[found].m_pipeline, 1, Len(m_pipelines[found].m_pipeline))
                      = m_pipelines[found].m_pipeline
                 /\ m_pipelines'[found].m_pipeline[Len(m_pipelines'[found].m_pipeline)].first = request]_vars

\* Two connections are open, and two requests have gone out on the socket
\* of one of them.
C26_Witness ==
  /\ Len(m_pipelines) = 2
  /\ \E i \in 1..Len(m_pipelines) :
       /\ Len(m_pipelines[i].m_socket.tx) = 2
       /\ Len(m_pipelines[i].m_pipeline) = 2

\* The elements of a pipeline whose response is not complete.
Unanswered(pipeline) == {k \in 1..Len(pipeline) : ~IsComplete(pipeline[k].second)}

\* C27: in every pipeline that has an element whose response is not
\* complete, m_current_request is the request of the first such element.
C27_CursorOnFirstUnanswered ==
  \A i \in 1..Len(m_pipelines) :
    LET pipeline == m_pipelines[i].m_pipeline IN
    Unanswered(pipeline) # {} =>
      \E k \in Unanswered(pipeline) :
        /\ \A j \in Unanswered(pipeline) : k <= j
        /\ m_pipelines[i].m_current_request = pipeline[k].first

\* C28: every iteration of the loop of HTTPClient::Update either erases the
\* pipeline it is at or goes on to the next one (or leaves the loop after
\* the last).
C28_UpdateIterationProgresses ==
  [][(/\ iter # 0
      /\ steps' = steps + 1
      /\ \E n \in 0..Len(m_pipelines[iter].m_socket.rx), elapsed \in 0..MaxDelay :
           UpdateIteration(n, elapsed))
     => \/ Len(m_pipelines') < Len(m_pipelines)
        \/ iter' = iter + 1
        \/ iter' = 0]_vars

\* C29: a response that is complete and whose request has been sent again
\* by a Reconnect holds the status, the headers and the body of the answer
\* to the latest transmission of the request, and nothing else.
C29_NoDataFromAbortedConnection ==
  \A i \in 1..Len(m_pipelines) : \A k \in 1..Len(m_pipelines[i].m_pipeline) :
    LET e == m_pipelines[i].m_pipeline[k] IN
    (Len(e.sn) > 1 /\ IsComplete(e.second)) =>
      /\ e.second.status = <<e.sn[Len(e.sn)]>>
      /\ e.second.body = <<e.sn[Len(e.sn)]>>
      /\ e.second.connection = IF e.close THEN <<"close">> ELSE <<>>

\* The requests of the elements whose response is not complete, in
\* pipeline order.
Outstanding(pipeline) ==
  LET unanswered == SelectSeq(pipeline, LAMBDA e : ~IsComplete(e.second))
  IN [n \in 1..Len(unanswered) |-> unanswered[n].first]

\* C30: a Reconnect of any pipeline leaves the elements, their responses
\* and their order as they are, and sends on the new socket the requests of
\* the elements whose response is not complete, in pipeline order, each
\* once.  After an Update that reconnected, what has been sent on the new
\* socket is the requests of the elements whose response is not complete,
\* in pipeline order; no element whose response was complete has been sent
\* again, every element whose response is not complete has been, and the
\* requests in the pipeline and their order are those from before the
\* Update.
C30_ReconnectResendsUnanswered ==
  [][\A i \in 1..Len(m_pipelines) :
       /\ LET q == Reconnect(m_pipelines[i]) IN
            /\ Len(q.m_pipeline) = Len(m_pipelines[i].m_pipeline)
            /\ \A k \in 1..Len(q.m_pipeline) :
                 /\ q.m_pipeline[k].first = m_pipelines[i].m_pipeline[k].first
                 /\ q.m_pipeline[k].second = m_pipelines[i].m_pipeline[k].second
            /\ q.m_socket.tx = Outstanding(m_pipelines[i].m_pipeline)
       /\ (/\ iter = i
           /\ Len(m_pipelines') = Len(m_pipelines)
           /\ m_pipelines'[i].sends > m_pipelines[i].sends) =>
            LET old == m_pipelines[i].m_pipeline
                new == m_pipelines'[i].m_pipeline
            IN /\ m_pipelines'[i].m_socket.tx = Outstanding(new)
               /\ Len(new) = Len(old)
               /\ \A k \in 1..Len(new) :
                    /\ new[k].first = old[k].first
                    /\ IsComplete(old[k].second) => new[k].sn = old[k].sn
                    /\ ~IsComplete(new[k].second) => Len(new[k].sn) > Len(old[k].sn)
               /\ \A k, j \in Unanswered(new) :
                    k < j => new[k].sn[Len(new[k].sn)] < new[j].sn[Len(new[j].sn)]]_vars

\* A Reconnect found the first request answered and the second, a
\* different one, not: the second alone has been sent on the new socket.
C30_Witness ==
  \E i \in 1..Len(m_pipelines) :
    LET pipeline == m_pipelines[i].m_pipeline IN
    /\ Len(pipeline) = 2
    /\ pipeline[1].first # pipeline[2].first
    /\ IsComplete(pipeline[1].second) /\ Len(pipeline[1].sn) = 1
    /\ ~IsComplete(pipeline[2].second) /\ Len(pipeline[2].sn) = 2
    /\ m_pipelines[i].m_socket.tx = <<pipeline[2].first>>

\* The elements of a pipeline that hold the given request.
Holding(pipeline, request) == {k \in 1..Len(pipeline) : pipeline[k].first = request}

\* C31: a GetResponse that returns a complete response returns the response
\* of the first element holding the request and removes that element and
\* nothing else, so that the same call made again does not return it again;
\* a GetResponse for a host without pipeline or for a request that is not in
\* the pipeline returns the empty response, one for an element whose
\* response is not complete returns that response, and both leave every
\* pipeline as it was.
C31_GetResponseDeliversOnce ==
  [][\A request \in Requests, address \in Addresses, port \in Ports :
       (/\ iter = 0
        /\ iter' = 0
        /\ GetResponseStep(request, address, port)) =>
         LET i == FindPipeline(m_pipelines, address, port)
             k == IF i = 0 THEN 0 ELSE Find(m_pipelines[i].m_pipeline, request)
             r == GetResponse(m_pipelines, request, address, port)
         IN /\ ~IsComplete(HTTPResponse)
            /\ (i = 0 \/ k = 0) => r.result = HTTPResponse /\ m_pipelines' = m_pipelines
            /\ (k # 0 /\ ~IsComplete(m_pipelines[i].m_pipeline[k].second)) =>
                 /\ r.result = m_pipelines[i].m_pipeline[k].second
                 /\ m_pipelines' = m_pipelines
            /\ IsComplete(r.result) =>
                 /\ k # 0
                 /\ r.result = m_pipelines[i].m_pipeline[k].second
                 /\ m_pipelines' =
                      [m_pipelines EXCEPT ![i].m_pipeline = Erase(@, k)]
                 /\ Cardinality(Holding(m_pipelines'[i].m_pipeline, request)) =
                      Cardinality(Holding(m_pipelines[i].m_pipeline, request)) - 1
                 /\ Cardinality(Holding(m_pipelines[i].m_pipeline, request)) = 1 =>
                      GetResponse(m_pipelines', request, address, port).result =
                        HTTPResponse]_vars

\* Two different requests were sent to a host, the answers arrived, and a
\* GetResponse has taken the element of one of them out of the pipeline.
C31_Witness ==
  \E i \in 1..Len(m_pipelines) :
    /\ m_pipelines[i].sends = 2
    /\ Len(m_pipelines[i].m_socket.tx) = 2
    /\ m_pipelines[i].m_socket.tx[1] # m_pipelines[i].m_socket.tx[2]
    /\ Len(m_pipelines[i].m_pipeline) = 1
    /\ iter = 0

\* The pipeline for the host of pipeline p is among the given ones.
StillOpen(pipelines, p) == FindPipeline(pipelines, p.address, p.port) # 0

\* C32: when a step leaves HTTPClient with fewer pipelines, it is an
\* iteration of Update that erased the one pipeline it was at, and that
\* pipeline held no request, has a timeout value other than 0 and has been
\* without activity for longer than that.  A pipeline that holds a request
\* is there after every step.  A pipeline with the timeout value 0 has not
\* timed out at any time, is there after every step, and an Update sends
\* its requests again only when the server has shut the connection down.
C32_ErasedOnlyWhenIdleAndEmpty ==
  [][/\ Len(m_pipelines') < Len(m_pipelines) =>
          /\ iter # 0
          /\ m_pipelines' = Erase(m_pipelines, iter)
          /\ ~HasRequests(m_pipelines[iter])
          /\ m_pipelines[iter].m_timeout_value # 0
          /\ now' - m_pipelines[iter].m_last_activity > m_pipelines[iter].m_timeout_value
     /\ \A i \in 1..Len(m_pipelines) :
          /\ HasRequests(m_pipelines[i]) => StillOpen(m_pipelines', m_pipelines[i])
          /\ m_pipelines[i].m_timeout_value = 0 =>
               /\ \A t \in 0..(MaxTime + MaxDelay) : ~TimedOut(m_pipelines[i], t)
               /\ StillOpen(m_pipelines', m_pipelines[i])
               /\ (iter = i /\ ~m_pipelines[i].m_socket.fin) =>
                    /\ m_pipelines'[i].sends = m_pipelines[i].sends
                    /\ m_pipelines'[i].m_socket.tx = m_pipelines[i].m_socket.tx]_vars

\* A pipeline holding a request went without activity for longer than its
\* timeout; Update has sent the request again and the pipeline is still
\* there.
C32_Witness ==
  \E i \in 1..Len(m_pipelines) :
    /\ m_pipelines[i].m_timeout_value # 0
    /\ Len(m_pipelines[i].m_pipeline) = 1
    /\ Len(m_pipelines[i].m_pipeline[1].sn) = 2
    /\ m_pipelines[i].sends = 2

\* A request is in a pipeline: it has been sent and GetResponse has not
\* returned a complete response to it.
Waiting == \E i \in 1..Len(m_pipelines) : HasRequests(m_pipelines[i])

\* C33: when the server answers every request and the application keeps
\* calling Update and GetResponse, a request that is in a pipeline is
\* taken out of it by a GetResponse that returns its complete response.
C33_EveryRequestAnswered == Waiting ~> ~Waiting

\* What of a field list is the same for every object of a type: the policy
\* and the width of each field, in the order of the list.
Schema(members) == [i \in 1..Len(members) |-> <<members[i].type, members[i].width>>]

\* The members a Message was written by, in the order they wrote.
Writers(msg) == [n \in 1..Len(msg.wrote) |-> msg.wrote[n].member]

\* C34: a step leaves the field list of every object as it was or with one
\* field more at its end, the fields before it untouched; a serialization
\* writes the fields in the order of the list; and a Full serialization of
\* the sender applied to a mirror whose fields were registered in the same
\* order gives every mirror field the value of the sender's field at the
\* same place.
C34_FieldListAppendOnlyOrdered ==
  [][/\ \A o \in Slots :
          \/ Schema(m_members'[o]) = Schema(m_members[o])
          \/ /\ Len(m_members'[o]) = Len(m_members[o]) + 1
             /\ SubSeq(m_members'[o], 1, Len(m_members[o])) = m_members[o]
             /\ m_members'[o][Len(m_members'[o])].width = Width(Len(m_members'[o]))
     /\ \A sync_type \in SynchronizationType :
          (/\ message'.tag = sync_type
           /\ message'.pos = 0
           /\ SchemaSerialize(sync_type)) =>
            /\ \A n, k \in 1..Len(message'.wrote) :
                 n < k => Writers(message')[n] < Writers(message')[k]
            /\ message'.bytes =
                 Payload(m_members[Sender],
                         {Writers(message')[n] : n \in 1..Len(message'.wrote)}, 1)
     /\ (/\ message.tag = Full
         /\ message'.bytes = message.bytes
         /\ InFlight(Full)
         /\ Schema(m_members[Sender]) = Schema(m_members[Mirror])
         /\ SchemaDeserialize(Full)) =>
          /\ \A i \in 1..Len(m_members[Mirror]) :
               m_members'[Mirror][i].m_value = m_members[Sender][i].m_value
          /\ ReadExactly(message')]_vars

\* Sender and mirror have registered the same fields in the same order,
\* fields of different widths among them; the sender holds a value other
\* than 0, and after a Full round trip the mirror holds the sender's values.
C34_Witness ==
  /\ Len(m_members[Sender]) = NFields
  /\ Schema(m_members[Sender]) = Schema(m_members[Mirror])
  /\ \E i, j \in 1..NFields : m_members[Sender][i].width # m_members[Sender][j].width
  /\ message.tag = Full
  /\ message.pos > 0
  /\ ReadExactly(message)
  /\ \E i \in 1..NFields : m_members[Sender][i].m_value # 0
  /\ \A i \in 1..NFields :
       m_members[Mirror][i].m_value = m_members[Sender][i].m_value

\* The destructor of the source, run on what a move left behind.
SourceDestroyed(w, object) == Destruct([w EXCEPT !.calls = <<>>], object)

\* After a move that left world w, the source is associated with no
\* Synchronizer, and its destructor calls no RemoveObject and leaves every
\* tracking table as it is.
SourceLetGo(w, object) ==
  /\ w.objects[object].m_synchronizer = nullptr
  /\ ~HasCall(SourceDestroyed(w, object), "RemoveObject")
  /\ SourceDestroyed(w, object).syncs = w.syncs

\* C35: after a move construction or a move assignment the source is
\* associated with no Synchronizer; destroying it makes no RemoveObject call
\* and changes no Synchronizer's entries, those of the destination included.
C35_MovedFromIsDetached ==
  [][\A o, object \in Slots :
       /\ (~crashed' /\ MoveConstructStep(o, object)) =>
            SourceLetGo(MoveConstruct(World, o, object), object)
       /\ (~crashed' /\ MoveAssignStep(o, object)) =>
            SourceLetGo(MoveAssign(World, o, object), object)]_vars

\* The operation that led to world w called a Synchronizer that was
\* destroyed before the operation.
CalledDestroyed(w) == \E n \in 1..Len(w.calls) : syncs[w.calls[n].sync].destroyed

\* C36: an operation on an object that is associated with a destroyed
\* Synchronizer (SetSynchronizer, NotifyChanged, the destructor, a move
\* from it or a move assignment to it) calls no AddObject, RemoveObject,
\* MoveObject or UpdateObject of a destroyed Synchronizer.
C36_NoCallOnDestroyedSynchronizer ==
  [][\A o \in Slots :
       (objects[o].alive /\ Dangling(o)) =>
         /\ NotifyChangedStep(o) => ~CalledDestroyed(NotifyChanged(World, o))
         /\ DestructStep(o) => ~CalledDestroyed(Destruct(World, o))
         /\ \A s \in Syncs \cup {nullptr} :
              SetSynchronizerStep(o, s) => ~CalledDestroyed(SetSynchronizer(World, o, s))
         /\ \A p \in Slots :
              /\ MoveConstructStep(p, o) => ~CalledDestroyed(MoveConstruct(World, p, o))
              /\ MoveAssignStep(p, o) => ~CalledDestroyed(MoveAssign(World, p, o))
              /\ MoveAssignStep(o, p) => ~CalledDestroyed(MoveAssign(World, o, p))]_vars

\* The frame is a tick's frame of the sender's Synchronizer in this step.
SenderTicked ==
  /\ message' = message
  /\ now' = now
  /\ period' = period
  /\ steps < MaxFieldSteps
  /\ ~crashed'
  /\ Tick(Sender)

\* The world after the step.
WorldAfter == [World EXCEPT !.objects = objects', !.syncs = syncs', !.members = m_members']

\* C37: a tick hands over a Delta for the sender only when the sender's
\* changed flag is set or one of its Stream fields is due, and none when
\* the sender is Live, unchanged and has no Stream field due; the tick that
\* hands over the sender's Create leaves the changed flag clear, and a tick
\* right after it hands over nothing unless a Stream field is due, whatever
\* the modified flags of the fields are.
C37_DeltaOnlyWhenChangedOrDue ==
  [][SenderTicked =>
       /\ Count(sent'[Sender], Msg("Delta", objects[Sender].m_id)) > 0 =>
            (objects[Sender].m_changed \/ HasDueStream(World, Sender))
       /\ (Live(Sender, objects[Sender].m_id)
             /\ ~objects[Sender].m_changed
             /\ ~HasDueStream(World, Sender)) => sent'[Sender] = <<>>
       /\ Count(sent'[Sender], Msg("Create", objects[Sender].m_id)) > 0 =>
            /\ ~objects'[Sender].m_changed
            /\ ~HasDueStream(WorldAfter, Sender) =>
                 Update(WorldAfter, Sender).frame[Sender] = <<>>]_vars

\* The tick that handed over the sender's Create has been followed by a
\* tick, with no field set in between; the sender has a Dynamic field whose
\* modified flag is still set, and nothing was handed over.
C37_Witness ==
  /\ steps = 2
  /\ created[Sender] = {objects[Sender].m_id}
  /\ Live(Sender, objects[Sender].m_id)
  /\ sent[Sender] = <<>>
  /\ message = EmptyMessage
  /\ now = 0
  /\ ~objects[Sender].m_changed
  /\ \E i \in 1..NFields :
       m_members[Sender][i].type = "Dynamic" /\ m_members[Sender][i].m_modified

\* The identifiers the receiver has a mirror for are those the sender's
\* Synchronizer tracks, and every field of the given policies has the same
\* value in the mirror as in the sender.
ConvergedOn(types) ==
  /\ Tracked(syncs[Receiver]) = Tracked(syncs[Sender])
  /\ \A id \in Tracked(syncs[Sender]) :
       LET o == syncs[Sender].ref[id]
           mirror == syncs[Receiver].ref[id]
       IN /\ Len(m_members[mirror]) = Len(m_members[o])
          /\ \A i \in 1..Len(m_members[o]) :
               m_members[o][i].type \in types =>
                 m_members[mirror][i].m_value = m_members[o][i].m_value

\* C38: once the application has stopped setting fields and both
\* Synchronizers go on ticking over a transport that loses and reorders
\* nothing, from some point on the receiver's mirrors are those of the
\* sender's tracked identifiers and every Static and Dynamic field of a
\* mirror has the value of the sender's field.
C38_EventualConvergence == <>[]ConvergedOn({"Static", "Dynamic"})

\* The same for the Dynamic fields alone.
DynamicFieldsConverge == <>[]ConvergedOn({"Dynamic"})

====
